---------------------------- MODULE Spec2Model ----------------------------
(***************************************************************************)
(* State-machine model of the TradeEngine execution core:                  *)
(*   - the order state machines (Order, OptionOrder, OptionSpreadOrder),   *)
(*     the fill processors and the order routers (specification SpecExec); *)
(*   - the signal pipeline process_signal with the kill switch, the        *)
(*     throttle store, the audit logs and the broker (specification Spec). *)
(* Optional values (Python None / a value) are <<>> / <<v>>.               *)
(***************************************************************************)
EXTENDS Integers, Sequences, FiniteSets, TLC

VARIABLES
    kind,          \* SpecExec: which order class the run drives
    order,         \* SpecExec: the order object (fields of its class)
    clock,         \* SpecExec: logical datetime.now(), one tick per call
    last,          \* SpecExec: the last call: operation, arguments, outcome
    redis_client,  \* Spec: TRUE when KillSwitch and ThrottleChecker hold a store client
    kv,            \* Spec: the store's kill_switch:* keys
    memory_state,  \* Spec: KillSwitch._memory_state
    zset,          \* Spec: the store's throttle:{strategy_id}:orders sorted sets
    memory_cache,  \* Spec: ThrottleChecker._memory_cache
    portfolio,     \* Spec: the state of the portfolio service
    now,           \* Spec: datetime.now(), in ticks
    flow,          \* Spec: the process_signal calls
    admin,         \* Spec: the activate() / deactivate() call in progress
    admin_calls,   \* Spec: activate() / deactivate() calls made so far
    decision_log,  \* Spec: DecisionLogger._log_buffer
    trade_log,     \* Spec: TradeLogger._log_buffer
    broker_calls,  \* Spec: the submit_order calls the broker received
    paper,         \* SpecPaper: the PaperBroker object and the calls running in it
    undelivered    \* SpecDelivery: the broker's fills for the order, not yet delivered

execVars == <<kind, order, clock, last>>
pipeVars == <<redis_client, kv, memory_state, zset, memory_cache, portfolio, now, flow,
              admin, admin_calls, decision_log, trade_log, broker_calls>>
vars == <<execVars, pipeVars, paper, undelivered>>

None == <<>>
Some(v) == <<v>>

(***************************************************************************)
(* Bounds of the model.                                                    *)
(***************************************************************************)
MaxQty == 3        \* order / leg / fill quantities range over 1..MaxQty
MaxPrice == 2      \* fill prices and unit notionals range over 1..MaxPrice
MaxOps == 3        \* calls made on one order
MaxLegQty == 2     \* quantities of the legs of a spread range over 1..MaxLegQty
MaxTime == 1       \* datetime.now() ranges over 0..MaxTime ticks
TicksPerMinute == 1    \* ticks of the clock in one minute
MaxAdminCalls == 1     \* activate() / deactivate() calls in a run
MaxPerMinute == 1      \* configured max_orders_per_strategy_per_minute
MaxPerHour == 2        \* configured max_orders_per_strategy_per_hour

(***************************************************************************)
(* order_state.py                                                          *)
(***************************************************************************)
OrderStatus ==
    {"PENDING", "SUBMITTED", "PARTIALLY_FILLED", "FILLED", "CANCELLED",
     "REJECTED", "FAILED"}

\* The valid_transitions dict of update_status (same literal in the three classes).
valid_transitions ==
    [s \in {"PENDING", "SUBMITTED", "PARTIALLY_FILLED"} |->
        CASE s = "PENDING" -> {"SUBMITTED", "REJECTED", "CANCELLED"}
          [] s = "SUBMITTED" -> {"PARTIALLY_FILLED", "FILLED", "CANCELLED", "FAILED"}
          [] s = "PARTIALLY_FILLED" -> {"FILLED", "CANCELLED", "FAILED"}]

is_terminal(o) == o.status \in {"FILLED", "CANCELLED", "REJECTED", "FAILED"}

\* for key, value in kwargs.items(): if hasattr(self, key): setattr(self, key, value)
SetKwargs(o, kwargs) ==
    [k \in DOMAIN o |-> IF k \in DOMAIN kwargs THEN kwargs[k] ELSE o[k]]

\* Timestamp side effects of update_status.
StampStatus(o, new_status, t) ==
    [o EXCEPT !.status = new_status,
              !.submitted_at = IF new_status = "SUBMITTED" THEN Some(t) ELSE @,
              !.filled_at = IF new_status = "FILLED" THEN Some(t) ELSE @,
              !.cancelled_at = IF new_status = "CANCELLED" THEN Some(t) ELSE @]

\* Mutant: update_status that never validates the transition.
Order_update_status_unchecked(o, new_status, kwargs, t) ==
    [raised |-> FALSE, o |-> SetKwargs(StampStatus(o, new_status, t), kwargs)]

\* Order.update_status: result is [raised, o]; raised means ValueError, o untouched.
Order_update_status(o, new_status, kwargs, t) ==
    IF /\ o.status \in DOMAIN valid_transitions
       /\ new_status \notin valid_transitions[o.status]
       /\ ~is_terminal(o)
    THEN [raised |-> TRUE, o |-> o]
    ELSE [raised |-> FALSE, o |-> SetKwargs(StampStatus(o, new_status, t), kwargs)]

\* A freshly constructed Order (status PENDING, nothing filled).
NewOrder(symbol, side, quantity, notional) ==
    [symbol |-> symbol, side |-> side, quantity |-> quantity, notional |-> notional,
     status |-> "PENDING", broker_order_id |-> None,
     filled_quantity |-> 0, filled_notional |-> 0, average_fill_price |-> None,
     submitted_at |-> None, filled_at |-> None, cancelled_at |-> None,
     rejection_reason |-> None]

(***************************************************************************)
(* fills.py                                                                *)
(***************************************************************************)
\* Fill.__init__: notional = quantity * price.
Fill(broker_order_id, symbol, quantity, price) ==
    [broker_order_id |-> broker_order_id, symbol |-> symbol, quantity |-> quantity,
     price |-> price, notional |-> quantity * price]

\* filled_notional / filled_quantity, kept exact as <<numerator, denominator>>.
Ratio(n, d) == <<n, d>>

\* Mutant: the broker_order_id comparison is made after the order was updated.
FillProcessor_apply_fill_late_check(o, fill, t) ==
    IF fill.symbol # o.symbol THEN [raised |-> TRUE, o |-> o]
    ELSE LET nq == o.filled_quantity + fill.quantity
             nn == o.filled_notional + fill.notional
             o1 == [o EXCEPT !.filled_quantity = nq, !.filled_notional = nn,
                             !.average_fill_price = Some(Ratio(nn, nq))]
         IN  [raised |-> Some(fill.broker_order_id) # o.broker_order_id, o |-> o1]

\* FillProcessor.apply_fill_to_order: result is [raised, o].
FillProcessor_apply_fill_to_order(o, fill, t) ==
    IF fill.symbol # o.symbol THEN [raised |-> TRUE, o |-> o]
    ELSE IF Some(fill.broker_order_id) # o.broker_order_id THEN [raised |-> TRUE, o |-> o]
    ELSE LET new_filled_quantity == o.filled_quantity + fill.quantity
             new_filled_notional == o.filled_notional + fill.notional
             full == new_filled_quantity >= o.quantity
             r == Order_update_status(o, IF full THEN "FILLED" ELSE "PARTIALLY_FILLED",
                                      <<>>, t)
             o1 == IF full
                   THEN [r.o EXCEPT !.filled_quantity = o.quantity,
                                    !.filled_notional = o.notional]
                   ELSE [r.o EXCEPT !.filled_quantity = new_filled_quantity,
                                    !.filled_notional = new_filled_notional]
             o2 == IF o1.filled_quantity > 0
                   THEN [o1 EXCEPT !.average_fill_price =
                                       Some(Ratio(o1.filled_notional, o1.filled_quantity))]
                   ELSE o1
         IN  IF r.raised THEN [raised |-> TRUE, o |-> o]
             ELSE [raised |-> FALSE, o |-> o2]

(***************************************************************************)
(* order_router.py                                                         *)
(***************************************************************************)
\* What a broker adapter call can do: return a value or raise an adapter error.
BrokerSubmitOutcomes == {"id", "error"}
BrokerCancelOutcomes == {"true", "false", "error"}

\* The option calls of an adapter that keeps BrokerAdapter's defaults raise
\* NotImplementedError ("unsupported").
OptionSubmitOutcomes == BrokerSubmitOutcomes \cup {"unsupported"}

\* The id a broker returns is fresh: it is derived from the call's instant.
FreshBrokerId(t) == t

\* Mutant: submit_order that does not keep the id the broker returned.
OrderRouter_submit_order_no_id(o, outcome, t) ==
    LET r1 == Order_update_status(o, "SUBMITTED", <<>>, t)
        r2 == Order_update_status(o, "FAILED", [rejection_reason |-> Some("error")], t)
    IN  IF outcome = "id" /\ ~r1.raised
        THEN [raised |-> FALSE, o |-> r1.o, err |-> None]
        ELSE IF r2.raised
             THEN [raised |-> TRUE, o |-> o, err |-> None]
             ELSE [raised |-> FALSE, o |-> r2.o, err |-> Some("error")]

\* OrderRouter.submit_order: result is [raised, o, err]; raised means the
\* exception left submit_order (update_status failed inside the except block).
OrderRouter_submit_order(o, outcome, t) ==
    LET o1 == IF outcome = "id"
              THEN [o EXCEPT !.broker_order_id = Some(FreshBrokerId(t))]
              ELSE o
        r1 == Order_update_status(o1, "SUBMITTED", <<>>, t)
        msg == IF outcome = "id" THEN "Invalid state transition" ELSE "broker error"
        r2 == Order_update_status(o1, "FAILED", [rejection_reason |-> Some(msg)], t)
    IN  IF outcome = "id" /\ ~r1.raised
        THEN [raised |-> FALSE, o |-> r1.o, err |-> None]
        ELSE IF r2.raised
             THEN [raised |-> TRUE, o |-> o1, err |-> None]
             ELSE [raised |-> FALSE, o |-> r2.o, err |-> Some(msg)]

\* Mutant: cancel_order that delegates to the broker whatever the order's state.
OrderRouter_cancel_order_unguarded(o, outcome, t) ==
    IF outcome = "error" THEN [called |-> TRUE, success |-> FALSE, o |-> o]
    ELSE LET r == Order_update_status(o, "CANCELLED", <<>>, t)
         IN  [called |-> TRUE, success |-> ~r.raised, o |-> r.o]

\* OrderRouter.cancel_order: result is [called, success, o]; called tells
\* whether broker.cancel_order was invoked.
OrderRouter_cancel_order(o, outcome, t) ==
    IF is_terminal(o) THEN [called |-> FALSE, success |-> FALSE, o |-> o]
    ELSE IF o.broker_order_id = None THEN [called |-> FALSE, success |-> FALSE, o |-> o]
    ELSE IF outcome = "error" THEN [called |-> TRUE, success |-> FALSE, o |-> o]
    ELSE LET r == Order_update_status(o, "CANCELLED", <<>>, t)
         IN  [called |-> TRUE, success |-> ~r.raised, o |-> r.o]

(***************************************************************************)
(* option_orders.py                                                        *)
(***************************************************************************)
\* An OptionLeg. strike is held in 1/10000 USD (strike10k) so that strikes
\* closer than 0.001 exist; expiration "YYYY-MM-DD" is <<YYYY, MM, DD>>.
OptionLeg(symbol, option_type, strike10k, expiration, side, quantity) ==
    [symbol |-> symbol, option_type |-> option_type, strike10k |-> strike10k,
     expiration |-> expiration, side |-> side, quantity |-> quantity,
     contract_multiplier |-> 100]

\* OptionLeg.get_contract_symbol: SYMBOL_YYMMDD_C/P_int(strike * 1000).
get_contract_symbol(leg) ==
    <<leg.symbol,
      <<leg.expiration[1] % 100, leg.expiration[2], leg.expiration[3]>>,
      IF leg.option_type = "CALL" THEN "C" ELSE "P",
      leg.strike10k \div 10>>

\* dict.get(key, default) and dict[key] = value on a dict held as a function.
DictGet(d, k, default) == IF k \in DOMAIN d THEN d[k] ELSE default
DictPut(d, k, v) == [x \in (DOMAIN d) \cup {k} |-> IF x = k THEN v ELSE d[x]]

\* A freshly constructed OptionOrder.
NewOptionOrder(leg) ==
    [leg |-> leg, limit_price |-> None, status |-> "PENDING",
     broker_order_id |-> None, filled_quantity |-> 0, filled_price |-> None,
     submitted_at |-> None, filled_at |-> None, cancelled_at |-> None,
     rejection_reason |-> None]

\* A freshly constructed OptionSpreadOrder (validate_legs: 2 to 4 legs).
NewOptionSpreadOrder(legs) ==
    [legs |-> legs, limit_price |-> None, status |-> "PENDING",
     broker_order_id |-> None, leg_fills |-> <<>>, leg_fill_prices |-> <<>>,
     submitted_at |-> None, filled_at |-> None, cancelled_at |-> None,
     rejection_reason |-> None]

\* OptionOrder.update_status.
OptionOrder_update_status(o, new_status, kwargs, t) ==
    IF /\ o.status \in DOMAIN valid_transitions
       /\ new_status \notin valid_transitions[o.status]
       /\ ~is_terminal(o)
    THEN [raised |-> TRUE, o |-> o]
    ELSE [raised |-> FALSE, o |-> SetKwargs(StampStatus(o, new_status, t), kwargs)]

\* OptionSpreadOrder.update_status.
OptionSpreadOrder_update_status(o, new_status, kwargs, t) ==
    IF /\ o.status \in DOMAIN valid_transitions
       /\ new_status \notin valid_transitions[o.status]
       /\ ~is_terminal(o)
    THEN [raised |-> TRUE, o |-> o]
    ELSE [raised |-> FALSE, o |-> SetKwargs(StampStatus(o, new_status, t), kwargs)]

\* OptionSpreadOrder.is_fully_filled.
is_fully_filled(o) ==
    \A i \in 1..Len(o.legs) :
        ~(DictGet(o.leg_fills, get_contract_symbol(o.legs[i]), 0) < o.legs[i].quantity)

(***************************************************************************)
(* option_fills.py                                                         *)
(***************************************************************************)
OptionFill(broker_order_id, contract_symbol, quantity, price_per_contract) ==
    [broker_order_id |-> broker_order_id, contract_symbol |-> contract_symbol,
     quantity |-> quantity, price_per_contract |-> price_per_contract]

\* The weighted average total_cost / filled_quantity with
\* total_cost = filled_price * (filled_quantity - fill.quantity) + price * fill.quantity,
\* on exact fractions <<numerator, denominator>>.
WeightedAverage(prev, filled_quantity, fill) ==
    <<prev[1] * (filled_quantity - fill.quantity)
        + fill.price_per_contract * fill.quantity * prev[2],
      prev[2] * filled_quantity>>

\* OptionFillProcessor.apply_fill_to_order: result is [raised, o].
OptionFillProcessor_apply_fill_to_order(o, fill, t) ==
    IF fill.contract_symbol # get_contract_symbol(o.leg) THEN [raised |-> TRUE, o |-> o]
    ELSE IF Some(fill.broker_order_id) # o.broker_order_id THEN [raised |-> TRUE, o |-> o]
    ELSE LET new_filled_quantity == o.filled_quantity + fill.quantity
             full == new_filled_quantity >= o.leg.quantity
             r == OptionOrder_update_status(
                      o, IF full THEN "FILLED" ELSE "PARTIALLY_FILLED", <<>>, t)
             o1 == [r.o EXCEPT !.filled_quantity =
                                   IF full THEN o.leg.quantity ELSE new_filled_quantity]
             o2 == IF o1.filled_quantity > 0
                   THEN [o1 EXCEPT !.filled_price =
                            IF o1.filled_price = None
                            THEN Some(Ratio(fill.price_per_contract, 1))
                            ELSE Some(WeightedAverage(o1.filled_price[1],
                                                      o1.filled_quantity, fill))]
                   ELSE o1
         IN  IF r.raised THEN [raised |-> TRUE, o |-> o]
             ELSE [raised |-> FALSE, o |-> o2]

\* OptionFillProcessor.apply_fill_to_spread: result is [raised, o]. The leg maps
\* are written before update_status is called, so o carries them when it raises.
OptionFillProcessor_apply_fill_to_spread(o, fill, leg, t) ==
    LET contract_symbol == get_contract_symbol(leg)
        current_filled == DictGet(o.leg_fills, contract_symbol, 0)
        sum == current_filled + fill.quantity
        new_filled == IF sum > leg.quantity THEN leg.quantity ELSE sum
        o1 == [o EXCEPT !.leg_fills = DictPut(@, contract_symbol, new_filled),
                        !.leg_fill_prices =
                            DictPut(@, contract_symbol, fill.price_per_contract)]
        r == IF is_fully_filled(o1)
             THEN OptionSpreadOrder_update_status(o1, "FILLED", <<>>, t)
             ELSE IF new_filled > 0
                  THEN OptionSpreadOrder_update_status(o1, "PARTIALLY_FILLED", <<>>, t)
                  ELSE [raised |-> FALSE, o |-> o1]
    IN  IF fill.contract_symbol # contract_symbol THEN [raised |-> TRUE, o |-> o]
        ELSE r

(***************************************************************************)
(* option_validation.py                                                    *)
(***************************************************************************)
\* datetime.now().date() of the run, and date order on <<YYYY, MM, DD>>.
Today == <<2026, 11, 3>>
DateLeq(a, b) ==
    \/ a[1] < b[1]
    \/ a[1] = b[1] /\ a[2] < b[2]
    \/ a[1] = b[1] /\ a[2] = b[2] /\ a[3] <= b[3]

\* OptionContractValidator.validate_leg: None when valid, else the error.
validate_leg(leg) ==
    IF DateLeq(leg.expiration, Today) THEN Some("Expiration must be in the future")
    ELSE IF leg.strike10k <= 0 THEN Some("Strike price must be positive")
    ELSE IF leg.quantity <= 0 THEN Some("Quantity must be positive")
    ELSE IF leg.contract_multiplier <= 0 THEN Some("Contract multiplier must be positive")
    ELSE IF leg.side \notin {"BUY", "SELL"} THEN Some("Side must be BUY or SELL")
    ELSE IF leg.option_type \notin {"CALL", "PUT"} THEN Some("Option type must be CALL or PUT")
    ELSE None

\* Mutant: a validator that accepts every option order.
validate_option_order_accepts(o) == None

\* OptionContractValidator.validate_option_order.
validate_option_order(o) ==
    IF validate_leg(o.leg) # None THEN Some("Leg validation failed")
    ELSE IF o.limit_price # None /\ o.limit_price[1] <= 0
         THEN Some("Limit price must be positive")
    ELSE None

\* OptionContractValidator.validate_spread_order.
validate_spread_order(o) ==
    IF \E i \in 1..Len(o.legs) : validate_leg(o.legs[i]) # None
    THEN Some("Leg validation failed")
    ELSE IF \E i \in 2..Len(o.legs) : o.legs[i].symbol # o.legs[1].symbol
    THEN Some("All legs must have same underlying")
    ELSE IF \E i \in 2..Len(o.legs) : o.legs[i].expiration # o.legs[1].expiration
    THEN Some("All legs must have same expiration")
    ELSE IF o.limit_price # None /\ o.limit_price[1] = 0
    THEN Some("Limit price cannot be zero")
    ELSE None

(***************************************************************************)
(* option_router.py                                                        *)
(***************************************************************************)
\* OptionOrderRouter.submit_option_order: result is [raised, called, o, err];
\* called tells whether the broker was invoked.
OptionOrderRouter_submit_option_order(o, outcome, t) ==
    LET verr == validate_option_order(o)
        rv == OptionOrder_update_status(o, "REJECTED", [rejection_reason |-> verr], t)
        o1 == IF outcome = "id"
              THEN [o EXCEPT !.broker_order_id = Some(FreshBrokerId(t))]
              ELSE o
        r1 == OptionOrder_update_status(o1, "SUBMITTED", <<>>, t)
        msg == CASE outcome = "id" -> "Invalid state transition"
                 [] outcome = "unsupported" -> "Option orders not supported by this broker"
                 [] OTHER -> "broker error"
        r2 == OptionOrder_update_status(o1, "FAILED", [rejection_reason |-> Some(msg)], t)
    IN  IF verr # None
        THEN [raised |-> rv.raised, called |-> FALSE, o |-> rv.o,
              err |-> IF rv.raised THEN None ELSE verr]
        ELSE IF outcome = "id" /\ ~r1.raised
        THEN [raised |-> FALSE, called |-> TRUE, o |-> r1.o, err |-> None]
        ELSE IF r2.raised
             THEN [raised |-> TRUE, called |-> TRUE, o |-> o1, err |-> None]
             ELSE [raised |-> FALSE, called |-> TRUE, o |-> r2.o, err |-> Some(msg)]

\* OptionOrderRouter.submit_spread_order.
OptionOrderRouter_submit_spread_order(o, outcome, t) ==
    LET verr == validate_spread_order(o)
        rv == OptionSpreadOrder_update_status(o, "REJECTED",
                                              [rejection_reason |-> verr], t)
        o1 == IF outcome = "id"
              THEN [o EXCEPT !.broker_order_id = Some(FreshBrokerId(t))]
              ELSE o
        r1 == OptionSpreadOrder_update_status(o1, "SUBMITTED", <<>>, t)
        msg == CASE outcome = "id" -> "Invalid state transition"
                 [] outcome = "unsupported" -> "Option spreads not supported by this broker"
                 [] OTHER -> "broker error"
        r2 == OptionSpreadOrder_update_status(o1, "FAILED",
                                              [rejection_reason |-> Some(msg)], t)
    IN  IF verr # None
        THEN [raised |-> rv.raised, called |-> FALSE, o |-> rv.o,
              err |-> IF rv.raised THEN None ELSE verr]
        ELSE IF outcome = "id" /\ ~r1.raised
        THEN [raised |-> FALSE, called |-> TRUE, o |-> r1.o, err |-> None]
        ELSE IF r2.raised
             THEN [raised |-> TRUE, called |-> TRUE, o |-> o1, err |-> None]
             ELSE [raised |-> FALSE, called |-> TRUE, o |-> r2.o, err |-> Some(msg)]

\* OptionOrderRouter.cancel_option_order, on an OptionOrder or a spread.
OptionOrderRouter_cancel_option_order(o, outcome, t, isSpread) ==
    IF is_terminal(o) THEN [called |-> FALSE, success |-> FALSE, o |-> o]
    ELSE IF o.broker_order_id = None THEN [called |-> FALSE, success |-> FALSE, o |-> o]
    ELSE IF outcome = "error" THEN [called |-> TRUE, success |-> FALSE, o |-> o]
    ELSE LET r == IF isSpread
                  THEN OptionSpreadOrder_update_status(o, "CANCELLED", <<>>, t)
                  ELSE OptionOrder_update_status(o, "CANCELLED", <<>>, t)
         IN  [called |-> TRUE, success |-> ~r.raised, o |-> r.o]

(***************************************************************************)
(* brokers/paper.py. Prices of the underlyings are in cents, fill prices   *)
(* of equity orders in 1/1000000 USD, option premiums and limit prices in  *)
(* 1/10000 USD. Timestamps and fill_id are left out; the eight hex digits  *)
(* of uuid4 an id is made from are taken never to repeat in one run.       *)
(***************************************************************************)
\* A call of the broker that has not started.
IdleCall ==
    [pc |-> "idle", op |-> "", id |-> None, args |-> None, result |-> None,
     raised |-> FALSE]

\* PaperBroker(): uuids counts the uuid4 values drawn for order ids; calls
\* holds, per caller, the submit call it has running in the broker.
NewPaperBroker ==
    [slippage_bps |-> 5, orders |-> <<>>, fills |-> <<>>, option_orders |-> <<>>,
     option_fills |-> <<>>, uuids |-> 0,
     calls |-> [c \in {"router", "client"} |-> IdleCall]]

\* PaperBroker._get_mock_price, in cents.
get_mock_price(symbol) ==
    CASE symbol = "AAPL" -> 17550
      [] symbol = "MSFT" -> 38025
      [] symbol = "GOOGL" -> 14075
      [] symbol = "TSLA" -> 25000
      [] OTHER -> 10000

\* PaperBroker._get_mock_option_premium, in 1/10000 USD.
get_mock_option_premium(leg) ==
    LET base_price == get_mock_price(leg.symbol) * 100
        diff == IF leg.option_type = "CALL" THEN base_price - leg.strike10k
                ELSE leg.strike10k - base_price
        intrinsic == IF diff > 0 THEN diff ELSE 0
        time_value == (base_price * 2) \div 100
    IN  IF intrinsic + time_value > 100 THEN intrinsic + time_value ELSE 100

\* Mutant: a simulated fill for all but one unit of the order.
PaperBroker_simulate_fill_short(p, id, symbol, side, quantity) ==
    LET fill == [broker_order_id |-> id, symbol |-> symbol, quantity |-> quantity - 1,
                 price |-> get_mock_price(symbol) * 10000]
    IN  [p EXCEPT !.fills = DictPut(@, id, Append(DictGet(@, id, <<>>), fill))]

\* PaperBroker._simulate_fill after its sleep: the fill at the mock price with
\* slippage, appended to _fills[id]; the order, if known, becomes FILLED.
PaperBroker_simulate_fill(p, id, symbol, side, quantity) ==
    LET fill_price == get_mock_price(symbol)
                         * (10000 + p.slippage_bps * (IF side = "BUY" THEN 1 ELSE -1))
        fill == [broker_order_id |-> id, symbol |-> symbol, quantity |-> quantity,
                 price |-> fill_price]
        p1 == [p EXCEPT !.fills = DictPut(@, id, Append(DictGet(@, id, <<>>), fill))]
    IN  IF id \in DOMAIN p1.orders
        THEN [p1 EXCEPT !.orders[id].status = "FILLED"]
        ELSE p1

\* PaperBroker._simulate_option_fill after its sleep.
PaperBroker_simulate_option_fill(p, id, leg, limit_price) ==
    LET fill_price == IF limit_price # None /\ limit_price[1] # 0 THEN limit_price[1]
                      ELSE get_mock_option_premium(leg)
        fill == OptionFill(id, get_contract_symbol(leg), leg.quantity, fill_price)
        p1 == [p EXCEPT !.option_fills =
                            DictPut(@, id, Append(DictGet(@, id, <<>>), fill))]
    IN  IF id \in DOMAIN p1.option_orders
        THEN [p1 EXCEPT !.option_orders[id].status = "FILLED"]
        ELSE p1

\* Mutant: a spread fill that records the fill of the first leg only.
PaperBroker_simulate_spread_fill_first_leg(p, id, legs, limit_price) ==
    LET fill == OptionFill(id, get_contract_symbol(legs[1]), legs[1].quantity,
                           get_mock_option_premium(legs[1]))
    IN  [p EXCEPT !.option_fills = DictPut(@, id, <<fill>>),
                  !.option_orders[id].status = "FILLED"]

\* PaperBroker._simulate_spread_fill after its sleep: one fill per leg, stored
\* by the single assignment _option_fills[id] = fills.
PaperBroker_simulate_spread_fill(p, id, legs, limit_price) ==
    LET leg_price(i) == IF limit_price # None /\ limit_price[1] # 0
                        THEN limit_price[1] \div Len(legs)
                        ELSE get_mock_option_premium(legs[i])
        fills == [i \in 1..Len(legs) |->
                     OptionFill(id, get_contract_symbol(legs[i]), legs[i].quantity,
                                leg_price(i))]
        p1 == [p EXCEPT !.option_fills = DictPut(@, id, fills)]
    IN  IF id \in DOMAIN p1.option_orders
        THEN [p1 EXCEPT !.option_orders[id].status = "FILLED"]
        ELSE p1

\* PaperBroker.cancel_order: [raised, result, p].
PaperBroker_cancel_order(p, id) ==
    IF id \notin DOMAIN p.orders THEN [raised |-> TRUE, result |-> FALSE, p |-> p]
    ELSE IF p.orders[id].status \in {"FILLED", "CANCELLED"}
    THEN [raised |-> FALSE, result |-> FALSE, p |-> p]
    ELSE [raised |-> FALSE, result |-> TRUE,
          p |-> [p EXCEPT !.orders[id].status = "CANCELLED"]]

\* PaperBroker.get_order_status: [raised, order]; raised is "Order not found".
PaperBroker_get_order_status(p, id) ==
    IF id \notin DOMAIN p.orders THEN [raised |-> TRUE, order |-> None]
    ELSE [raised |-> FALSE, order |-> Some(p.orders[id])]

\* PaperBroker.get_fills.
PaperBroker_get_fills(p, id) == DictGet(p.fills, id, <<>>)

(***************************************************************************)
(* config/limits.py                                                        *)
(***************************************************************************)
\* RiskLimits with its default field values; USD amounts are whole dollars
\* and the two percentages are the fractions 20/100 and 5/100.
DEFAULT_LIMITS ==
    [max_position_size_usd |-> 1000000,
     max_total_exposure_usd |-> 10000000,
     max_single_asset_exposure_pct |-> Ratio(20, 100),
     max_daily_loss_usd |-> 100000,
     max_daily_loss_pct |-> Ratio(5, 100),
     max_order_notional_usd |-> 500000,
     min_order_notional_usd |-> 1000,
     max_orders_per_strategy_per_minute |-> 10,
     max_orders_per_strategy_per_hour |-> 100,
     max_slippage_bps |-> 50]

\* RiskLimits.from_dict: the defaults with the configured fields replaced.
RiskLimits_from_dict(config) ==
    [k \in DOMAIN DEFAULT_LIMITS |->
        IF k \in DOMAIN config THEN config[k] ELSE DEFAULT_LIMITS[k]]

\* The limits the engine runs with: the default USD limits, and rate limits
\* small enough for a few signals to reach them.
limits ==
    RiskLimits_from_dict([max_orders_per_strategy_per_minute |-> MaxPerMinute,
                          max_orders_per_strategy_per_hour |-> MaxPerHour])

(***************************************************************************)
(* config/signal_contract.py                                               *)
(***************************************************************************)
TradingSignal(strategy_id, symbol, side, target_exposure, max_slippage_bps, max_notional) ==
    [strategy_id |-> strategy_id, symbol |-> symbol, side |-> side,
     target_exposure |-> target_exposure,
     constraints |-> [max_slippage_bps |-> max_slippage_bps,
                      max_notional |-> max_notional]]

Min(a, b) == IF a <= b THEN a ELSE b
Abs(x) == IF x < 0 THEN -x ELSE x

\* TradingSignal.get_order_notional (max_notional, when given, is > 0).
get_order_notional(signal) ==
    IF signal.constraints.max_notional # None
    THEN Min(signal.target_exposure, signal.constraints.max_notional[1])
    ELSE signal.target_exposure

(***************************************************************************)
(* portfolio/client.py                                                     *)
(***************************************************************************)
\* The client's state: positions by symbol, the portfolio value (None when
\* unavailable) and today's P&L entries.
PortfolioState(positions, portfolio_value, pnl_history) ==
    [positions |-> positions, portfolio_value |-> portfolio_value,
     pnl_history |-> pnl_history]

get_position(pf, symbol) == DictGet(pf.positions, symbol, 0)

\* The sum of the entries' pnl; strategy_id None sums over every strategy.
RECURSIVE SumPnl(_, _)
SumPnl(history, strategy_id) ==
    IF history = <<>> THEN 0
    ELSE (IF strategy_id = None \/ Head(history).strategy_id = strategy_id[1]
          THEN Head(history).pnl ELSE 0)
           + SumPnl(Tail(history), strategy_id)

get_strategy_daily_pnl(pf, strategy_id) == SumPnl(pf.pnl_history, Some(strategy_id))

get_total_daily_pnl(pf) == SumPnl(pf.pnl_history, None)

(***************************************************************************)
(* risk/exposure.py                                                        *)
(***************************************************************************)
CheckResult(valid, error) == [valid |-> valid, error |-> error]

RECURSIVE SumAbs(_, _)
SumAbs(positions, symbols) ==
    IF symbols = {} THEN 0
    ELSE LET s == CHOOSE x \in symbols : TRUE
         IN  Abs(positions[s]) + SumAbs(positions, symbols \ {s})

get_total_exposure(pf) == SumAbs(pf.positions, DOMAIN pf.positions)

calculate_new_exposure(signal, current_position) ==
    IF signal.side = "BUY"
    THEN Abs(current_position + signal.target_exposure)
    ELSE Abs(current_position - signal.target_exposure)

check_position_limit(signal, lim, pf) ==
    LET new_exposure == calculate_new_exposure(signal, get_position(pf, signal.symbol))
    IN  IF new_exposure > lim.max_position_size_usd
        THEN CheckResult(FALSE, Some("Position limit exceeded"))
        ELSE CheckResult(TRUE, None)

check_total_exposure_limit(signal, lim, pf) ==
    LET current_total == get_total_exposure(pf)
        current_asset == Abs(get_position(pf, signal.symbol))
        new_asset == calculate_new_exposure(signal, get_position(pf, signal.symbol))
        new_total == current_total - current_asset + new_asset
    IN  IF new_total > lim.max_total_exposure_usd
        THEN CheckResult(FALSE, Some("Total exposure limit exceeded"))
        ELSE CheckResult(TRUE, None)

\* exposure_pct > max_single_asset_exposure_pct, as an inequality of products.
check_single_asset_exposure_limit(signal, lim, pf, total_portfolio_value) ==
    IF total_portfolio_value <= 0 THEN CheckResult(TRUE, None)
    ELSE LET new_exposure ==
                 calculate_new_exposure(signal, get_position(pf, signal.symbol))
             pct == lim.max_single_asset_exposure_pct
         IN  IF new_exposure * pct[2] > pct[1] * total_portfolio_value
             THEN CheckResult(FALSE, Some("Single asset exposure limit exceeded"))
             ELSE CheckResult(TRUE, None)

(***************************************************************************)
(* risk/loss_limits.py                                                     *)
(***************************************************************************)
check_daily_loss_limit(strategy_id, lim, pf) ==
    LET daily_pnl == get_strategy_daily_pnl(pf, strategy_id)
        pct == lim.max_daily_loss_pct
    IN  IF daily_pnl < -lim.max_daily_loss_usd
        THEN CheckResult(FALSE, Some("Daily loss limit exceeded"))
        ELSE IF /\ pf.portfolio_value # None
                /\ pf.portfolio_value[1] > 0
                /\ Abs(daily_pnl) * pct[2] > pct[1] * pf.portfolio_value[1]
             THEN CheckResult(FALSE, Some("Daily loss percentage limit exceeded"))
             ELSE CheckResult(TRUE, None)

check_total_daily_loss_limit(lim, pf) ==
    IF get_total_daily_pnl(pf) < -lim.max_daily_loss_usd
    THEN CheckResult(FALSE, Some("Total daily loss limit exceeded"))
    ELSE CheckResult(TRUE, None)

(***************************************************************************)
(* risk/throttles.py                                                       *)
(***************************************************************************)
\* timedelta(minutes=window_minutes) in ticks of the model's clock.
Window(window_minutes) == window_minutes * TicksPerMinute

\* _get_order_timestamps, in-memory branch: the list entries at or after cutoff.
MemoryTimestamps(cache, strategy_id, cutoff) ==
    IF strategy_id \notin DOMAIN cache THEN <<>>
    ELSE LET InWindow(ts) == ts >= cutoff
         IN  SelectSeq(cache[strategy_id], InWindow)

\* Values of the two Python types the throttle handles: the float
\* now.timestamp() and its text str(now.timestamp()).
Float(ts) == <<"float", ts>>
TimestampText(ts) == <<"str", ts>>

\* A sorted set of the store is a dict member |-> score.
\* zrangebyscore(key, cutoff, "+inf") answers the members whose score is at
\* least cutoff (without their scores).
zrangebyscore(zsets, strategy_id, cutoff) ==
    LET z == DictGet(zsets, strategy_id, <<>>)
    IN  {m \in DOMAIN z : z[m] >= cutoff}

\* zadd(key, {str(ts): ts}): the member is the timestamp's text and the score
\* the timestamp; adding a member that exists only rewrites its score.
zadd(zsets, strategy_id, ts) ==
    DictPut(zsets, strategy_id,
            DictPut(DictGet(zsets, strategy_id, <<>>), TimestampText(ts), ts))

\* datetime.fromtimestamp(x, tz=timezone.utc) accepts a number and raises
\* TypeError on a str: result is [raised, value].
datetime_fromtimestamp(x) ==
    IF x[1] = "float" THEN [raised |-> FALSE, value |-> x[2]]
    ELSE [raised |-> TRUE, value |-> 0]

\* _get_order_timestamps, store branch, once zrangebyscore has answered:
\* [datetime.fromtimestamp(ts) for ts in timestamps]. Result is [raised, n],
\* n the length of the list.
StoreTimestamps(timestamps) ==
    [raised |-> \E m \in timestamps : datetime_fromtimestamp(m).raised,
     n |-> Cardinality(timestamps)]

\* _record_order, in-memory branch.
MemoryRecordOrder(cache, strategy_id, t) ==
    DictPut(cache, strategy_id, Append(DictGet(cache, strategy_id, <<>>), t))

MinuteError == "Rate limit exceeded: orders in last minute"
HourError == "Rate limit exceeded: orders in last hour"

\* check_rate_limit with the in-memory cache: result is [valid, error, cache].
ThrottleChecker_check_rate_limit(cache, strategy_id, lim, t) ==
    IF Len(MemoryTimestamps(cache, strategy_id, t - Window(1)))
          >= lim.max_orders_per_strategy_per_minute
    THEN [valid |-> FALSE, error |-> Some(MinuteError), cache |-> cache]
    ELSE IF Len(MemoryTimestamps(cache, strategy_id, t - Window(60)))
               >= lim.max_orders_per_strategy_per_hour
         THEN [valid |-> FALSE, error |-> Some(HourError), cache |-> cache]
         ELSE [valid |-> TRUE, error |-> None,
               cache |-> MemoryRecordOrder(cache, strategy_id, t)]

(***************************************************************************)
(* risk/pre_trade.py                                                       *)
(***************************************************************************)
check_order_notional(signal, lim) ==
    LET notional == get_order_notional(signal)
    IN  IF notional > lim.max_order_notional_usd
        THEN CheckResult(FALSE, Some("Order notional exceeds limit"))
        ELSE IF notional < lim.min_order_notional_usd
             THEN CheckResult(FALSE, Some("Order notional below minimum"))
             ELSE CheckResult(TRUE, None)

check_slippage_limit(signal, lim) ==
    IF signal.constraints.max_slippage_bps > lim.max_slippage_bps
    THEN CheckResult(FALSE, Some("Slippage limit exceeded"))
    ELSE CheckResult(TRUE, None)

\* check_results[name] = {"valid": ..., "error": ...}, in insertion order.
Checked(name, r) == [name |-> name, valid |-> r.valid, error |-> r.error]

\* Mutant: run_all_checks that returns at the first failed check.
RiskChecks_short_circuit(signal, lim, pf) ==
    LET portfolio_value == IF pf.portfolio_value = None THEN 0
                           ELSE pf.portfolio_value[1]
        all == << Checked("order_notional", check_order_notional(signal, lim)),
                  Checked("slippage", check_slippage_limit(signal, lim)),
                  Checked("position_limit", check_position_limit(signal, lim, pf)),
                  Checked("total_exposure", check_total_exposure_limit(signal, lim, pf)),
                  Checked("single_asset_exposure",
                          check_single_asset_exposure_limit(signal, lim, pf,
                                                            portfolio_value)),
                  Checked("strategy_daily_loss",
                          check_daily_loss_limit(signal.strategy_id, lim, pf)),
                  Checked("total_daily_loss", check_total_daily_loss_limit(lim, pf)) >>
        failed == {k \in 1..Len(all) : ~all[k].valid}
    IN  IF failed = {} THEN all
        ELSE SubSeq(all, 1, CHOOSE k \in failed : \A j \in failed : k <= j)

\* Mutant: run_all_checks that runs the slippage check before the notional check.
RiskChecks_reordered(signal, lim, pf) ==
    LET portfolio_value == IF pf.portfolio_value = None THEN 0
                           ELSE pf.portfolio_value[1]
    IN  << Checked("slippage", check_slippage_limit(signal, lim)),
           Checked("order_notional", check_order_notional(signal, lim)),
           Checked("position_limit", check_position_limit(signal, lim, pf)),
           Checked("total_exposure", check_total_exposure_limit(signal, lim, pf)),
           Checked("single_asset_exposure",
                   check_single_asset_exposure_limit(signal, lim, pf, portfolio_value)),
           Checked("strategy_daily_loss",
                   check_daily_loss_limit(signal.strategy_id, lim, pf)),
           Checked("total_daily_loss", check_total_daily_loss_limit(lim, pf)) >>

\* run_all_checks, checks 1 to 7 (everything before the rate limit).
RiskChecks1to7(signal, lim, pf) ==
    LET portfolio_value == IF pf.portfolio_value = None THEN 0
                           ELSE pf.portfolio_value[1]
    IN  << Checked("order_notional", check_order_notional(signal, lim)),
           Checked("slippage", check_slippage_limit(signal, lim)),
           Checked("position_limit", check_position_limit(signal, lim, pf)),
           Checked("total_exposure", check_total_exposure_limit(signal, lim, pf)),
           Checked("single_asset_exposure",
                   check_single_asset_exposure_limit(signal, lim, pf, portfolio_value)),
           Checked("strategy_daily_loss",
                   check_daily_loss_limit(signal.strategy_id, lim, pf)),
           Checked("total_daily_loss", check_total_daily_loss_limit(lim, pf)) >>

\* Mutant: run_all_checks that never collects an error.
ErrorsOf_none(check_results) == <<>>

\* The errors list of run_all_checks: the error of every failed check, in order.
RECURSIVE ErrorsOf(_)
ErrorsOf(check_results) ==
    IF check_results = <<>> THEN <<>>
    ELSE (IF Head(check_results).valid THEN <<>> ELSE <<Head(check_results).error[1]>>)
           \o ErrorsOf(Tail(check_results))

(***************************************************************************)
(* api/kill_switch.py                                                      *)
(***************************************************************************)
\* The kill_switch:* keys of the store; a key that was never set is None.
EmptyStore ==
    [active |-> None, reason |-> None, activated_at |-> None,
     deactivated_at |-> None, deactivation_reason |-> None]

\* Mutant: a kill switch that always reports inactive.
KillSwitch_never_active(client, store, mem) == FALSE

\* Mutant: is_active that takes any stored value as active (truthiness only).
KillSwitch_is_active_truthy(client, store, mem) ==
    IF client THEN store.active # None ELSE mem

\* KillSwitch.is_active: state == "1" if state else False, or the memory flag.
KillSwitch_is_active(client, store, mem) ==
    IF client
    THEN (IF store.active # None THEN store.active[1] = "1" ELSE FALSE)
    ELSE mem

\* str(datetime.now()) as stored under activated_at / deactivated_at, and the
\* two placeholders get_status answers with.
DatetimeText(t) == <<"datetime", t>>
Unknown == <<"Unknown">>
NotApplicable == <<"N/A">>

\* KillSwitch.get_status with nothing else running between its reads.
KillSwitch_get_status(client, store, mem) ==
    IF client
    THEN [active |-> KillSwitch_is_active(client, store, mem),
          reason |-> IF store.reason = None THEN "Unknown" ELSE store.reason[1],
          activated_at |-> IF store.activated_at = None THEN Unknown
                           ELSE DatetimeText(store.activated_at[1])]
    ELSE [active |-> KillSwitch_is_active(client, store, mem),
          reason |-> "In-memory state",
          activated_at |-> NotApplicable]

(***************************************************************************)
(* api/signal_ingest.py, audit/decision_log.py, audit/trade_log.py         *)
(***************************************************************************)
SignalResponse(signal_id, order_id, status, message, errors) ==
    [signal_id |-> signal_id, order_id |-> order_id, status |-> status,
     message |-> message, errors |-> errors]

\* The entry log_risk_decision appends.
DecisionEntry(t, signal_id, signal, decision, check_results, errors) ==
    [timestamp |-> t, signal_id |-> signal_id, strategy_id |-> signal.strategy_id,
     symbol |-> signal.symbol, decision |-> decision,
     check_results |-> check_results, errors |-> errors]

\* The entries log_order_created, log_order_submitted and log_order_rejected append.
TradeEntry(t, event, order_id, signal, o) ==
    [timestamp |-> t, event |-> event, order_id |-> order_id,
     strategy_id |-> signal.strategy_id, symbol |-> o.symbol,
     broker_order_id |-> o.broker_order_id, status |-> o.status]

KillSwitchError == "Kill switch is active - trading halted"

\* A process_signal call: where it is suspended (pc), its arguments and locals.
\* t is the datetime.now() captured for the store command in flight; gate is
\* how the store answered the kill-switch read and broker_reply what the broker
\* answered to submit_order.
IdleFlow ==
    [pc |-> "idle", signal |-> None, check_results |-> <<>>, t |-> None,
     order |-> None, response |-> None, raised |-> FALSE, gate |-> "ok",
     broker_reply |-> None]

\* The caller of the kill-switch endpoints, one call at a time: the call in
\* progress (pc, reason, t), the last completed activate() / deactivate()
\* (completed, with its reason left in reason) and the dict the last
\* get_status() returned since then (status).
IdleAdmin ==
    [pc |-> "idle", reason |-> "", t |-> None, completed |-> "none", status |-> None]

\* The process_signal calls that can be in flight together, named in the order
\* of their arrival.
Flows == {"f1", "f2"}

\* The PortfolioClient's initial state: no position, no value, no P&L entry.
EmptyPortfolio == PortfolioState(<<>>, None, <<>>)

\* The pipeline at rest (its state throughout SpecExec and SpecLifecycle).
PipeQuiet ==
    /\ redis_client = FALSE
    /\ kv = EmptyStore
    /\ memory_state = FALSE
    /\ zset = <<>>
    /\ memory_cache = <<>>
    /\ portfolio = EmptyPortfolio
    /\ now = 0
    /\ flow = [f \in Flows |-> IdleFlow]
    /\ admin = IdleAdmin
    /\ admin_calls = 0
    /\ decision_log = <<>>
    /\ trade_log = <<>>
    /\ broker_calls = <<>>

(***************************************************************************)
(* SpecExec: one order of one class, driven by any sequence of calls of    *)
(* update_status, the router's submit and cancel, and the fill processor.  *)
(***************************************************************************)
Symbols == {"AAPL", "MSFT"}
Expiration == <<2026, 12, 18>>
ExpiredExpiration == <<2026, 10, 16>>

\* Leg shapes: two distinct contracts, and a third leg on the first contract.
LegShapes ==
    {<<"CALL", 1750000, "BUY">>, <<"CALL", 1800000, "SELL">>, <<"CALL", 1750000, "SELL">>}
LegOf(shape, expiration, quantity) ==
    OptionLeg("AAPL", shape[1], shape[2], expiration, shape[3], quantity)
SpreadLegs == {LegOf(sh, Expiration, q) : sh \in LegShapes, q \in {1, MaxLegQty}}
ContractSymbols == {get_contract_symbol(l) : l \in SpreadLegs}

\* Second legs that make a spread with a first AAPL leg expiring on Expiration
\* fail validate_spread_order: another underlying, an expiration that has
\* passed, and a later expiration.
InvalidSecondLegs ==
    {OptionLeg("MSFT", "CALL", 1800000, Expiration, "SELL", 1),
     LegOf(<<"CALL", 1800000, "SELL">>, ExpiredExpiration, 1),
     LegOf(<<"CALL", 1800000, "SELL">>, <<2027, 1, 15>>, 1)}

\* The orders a run starts from: freshly constructed, of each class; the
\* option orders and the spreads include ones the validator refuses.
InitOrders(k) ==
    CASE k = "equity" ->
            {NewOrder("AAPL", "BUY", q, q * u) :
                q \in {MaxQty - 1, MaxQty}, u \in {1, MaxPrice}}
      [] k = "option" ->
            {NewOptionOrder(LegOf(<<"CALL", 1750000, "BUY">>, e, q)) :
                e \in {Expiration, ExpiredExpiration}, q \in {MaxQty - 1, MaxQty}}
      [] k = "spread" ->
            {NewOptionSpreadOrder(<<l1, l2>>) :
                l1 \in {l \in SpreadLegs : l.side = "BUY"},
                l2 \in {l \in SpreadLegs : l.side = "SELL"}}
            \cup {NewOptionSpreadOrder(<<LegOf(<<"CALL", 1750000, "BUY">>, Expiration, 1), l2>>) :
                     l2 \in InvalidSecondLegs}

NoCall ==
    [op |-> "init", from |-> "PENDING", target |-> "", outcome |-> "", fill |-> None,
     leg |-> None, raised |-> FALSE, called |-> FALSE, err |-> None]

\* The order objects at rest (their state throughout Spec).
ExecQuiet ==
    /\ kind = "equity"
    /\ order = NewOrder("AAPL", "BUY", 1, 1)
    /\ clock = 0
    /\ last = NoCall

\* One freshly constructed order of one of the three classes.
OrderInit ==
    /\ kind \in {"equity", "option", "spread"}
    /\ order \in InitOrders(kind)
    /\ clock = 0
    /\ last = NoCall

ExecInit == OrderInit /\ PipeQuiet /\ paper = NewPaperBroker /\ undelivered = <<>>

\* update_status of the class of the order.
UpdateStatusOf(k, o, new_status, kwargs, t) ==
    CASE k = "equity" -> Order_update_status(o, new_status, kwargs, t)
      [] k = "option" -> OptionOrder_update_status(o, new_status, kwargs, t)
      [] k = "spread" -> OptionSpreadOrder_update_status(o, new_status, kwargs, t)

\* The keyword arguments the callers of update_status pass.
KwargsFor(new_status) ==
    IF new_status \in {"REJECTED", "FAILED"}
    THEN {<<>>, [rejection_reason |-> Some("reason")]}
    ELSE {<<>>}

\* A direct call order.update_status(new_status, **kwargs).
CallUpdateStatus ==
    /\ clock < MaxOps
    /\ \E new_status \in OrderStatus : \E kwargs \in KwargsFor(new_status) :
         LET r == UpdateStatusOf(kind, order, new_status, kwargs, clock + 1)
         IN  /\ order' = r.o
             /\ last' = [NoCall EXCEPT !.op = "update_status", !.from = order.status,
                                       !.target = new_status, !.raised = r.raised]
    /\ clock' = clock + 1
    /\ UNCHANGED kind
    /\ UNCHANGED <<pipeVars, paper, undelivered>>

\* The router's submit for the class of the order; the broker returns an id or raises.
RouterSubmit ==
    /\ clock < MaxOps
    /\ \E outcome \in IF kind = "equity" THEN BrokerSubmitOutcomes ELSE OptionSubmitOutcomes :
         LET t == clock + 1
             r == CASE kind = "equity" ->
                          [called |-> TRUE] @@ OrderRouter_submit_order(order, outcome, t)
                    [] kind = "option" ->
                          OptionOrderRouter_submit_option_order(order, outcome, t)
                    [] kind = "spread" ->
                          OptionOrderRouter_submit_spread_order(order, outcome, t)
         IN  /\ order' = r.o
             /\ last' = [NoCall EXCEPT !.op = "submit", !.from = order.status,
                                       !.outcome = outcome, !.raised = r.raised,
                                       !.called = r.called, !.err = r.err]
    /\ clock' = clock + 1
    /\ UNCHANGED kind
    /\ UNCHANGED <<pipeVars, paper, undelivered>>

\* The router's cancel; the broker's cancel_order returns True, False or raises.
RouterCancel ==
    /\ clock < MaxOps
    /\ \E outcome \in BrokerCancelOutcomes :
         LET t == clock + 1
             r == IF kind = "equity"
                  THEN OrderRouter_cancel_order(order, outcome, t)
                  ELSE OptionOrderRouter_cancel_option_order(order, outcome, t,
                                                             kind = "spread")
         IN  /\ order' = r.o
             /\ last' = [NoCall EXCEPT !.op = "cancel", !.from = order.status,
                                       !.outcome = outcome, !.called = r.called,
                                       !.err = IF r.success THEN None ELSE Some("refused")]
    /\ clock' = clock + 1
    /\ UNCHANGED kind
    /\ UNCHANGED <<pipeVars, paper, undelivered>>

\* The broker ids a fill handed to the fill processor can carry: the order's
\* own id (a fill the broker made for this order), or another order's id.
OwnBrokerId(o) == IF o.broker_order_id = None THEN {} ELSE {o.broker_order_id[1]}
FillBrokerIds(o) == {0} \cup OwnBrokerId(o)

\* FillProcessor.apply_fill_to_order on an equity order, the fill's id in ids.
EquityFill(ids) ==
    /\ clock < MaxOps
    /\ kind = "equity"
    /\ \E b \in ids, s \in Symbols, q \in 1..MaxQty, p \in 1..MaxPrice :
         LET fill == Fill(b, s, q, p)
             r == FillProcessor_apply_fill_to_order(order, fill, clock + 1)
         IN  /\ order' = r.o
             /\ last' = [NoCall EXCEPT !.op = "apply_fill", !.from = order.status,
                                       !.fill = Some(fill), !.raised = r.raised]
    /\ clock' = clock + 1
    /\ UNCHANGED kind
    /\ UNCHANGED <<pipeVars, paper, undelivered>>

\* OptionFillProcessor.apply_fill_to_order on a single-leg option order.
OptionOrderFill(ids) ==
    /\ clock < MaxOps
    /\ kind = "option"
    /\ \E b \in ids, cs \in ContractSymbols, q \in 1..MaxQty, p \in 1..MaxPrice :
         LET fill == OptionFill(b, cs, q, p)
             r == OptionFillProcessor_apply_fill_to_order(order, fill, clock + 1)
         IN  /\ order' = r.o
             /\ last' = [NoCall EXCEPT !.op = "apply_fill", !.from = order.status,
                                       !.fill = Some(fill), !.raised = r.raised]
    /\ clock' = clock + 1
    /\ UNCHANGED kind
    /\ UNCHANGED <<pipeVars, paper, undelivered>>

\* OptionFillProcessor.apply_fill_to_spread for one of the spread's legs.
SpreadFill(ids) ==
    /\ clock < MaxOps
    /\ kind = "spread"
    /\ \E i \in 1..Len(order.legs), b \in ids, cs \in ContractSymbols,
          q \in 1..MaxLegQty, p \in 1..MaxPrice :
         LET fill == OptionFill(b, cs, q, p)
             r == OptionFillProcessor_apply_fill_to_spread(order, fill, order.legs[i],
                                                           clock + 1)
         IN  /\ order' = r.o
             /\ last' = [NoCall EXCEPT !.op = "apply_fill", !.from = order.status,
                                       !.fill = Some(fill), !.leg = Some(i),
                                       !.raised = r.raised]
    /\ clock' = clock + 1
    /\ UNCHANGED kind
    /\ UNCHANGED <<pipeVars, paper, undelivered>>

\* Any fill is handed to the fill processor, whether or not it is the order's.
ApplyFill == EquityFill(FillBrokerIds(order))
ApplyOptionFill == OptionOrderFill(FillBrokerIds(order))
ApplySpreadFill == SpreadFill(FillBrokerIds(order))

ExecNext ==
    \/ CallUpdateStatus
    \/ RouterSubmit
    \/ RouterCancel
    \/ ApplyFill
    \/ ApplyOptionFill
    \/ ApplySpreadFill

SpecExec == ExecInit /\ [][ExecNext]_vars

(***************************************************************************)
(* SpecLifecycle: the calls the engine itself makes on an order: the       *)
(* router's submit and cancel, and the fills the broker made for the       *)
(* order (they carry its broker_order_id, so they follow a submission).    *)
(***************************************************************************)
DeliverFill == EquityFill(OwnBrokerId(order))
DeliverOptionFill == OptionOrderFill(OwnBrokerId(order))
DeliverSpreadFill == SpreadFill(OwnBrokerId(order))

LifecycleNext ==
    \/ RouterSubmit
    \/ RouterCancel
    \/ DeliverFill
    \/ DeliverOptionFill
    \/ DeliverSpreadFill

SpecLifecycle == ExecInit /\ [][LifecycleNext]_vars

(***************************************************************************)
(* SpecDelivery: an equity order the router submitted (SUBMITTED, with its *)
(* broker_order_id) and the fills the broker made for it, whose quantities *)
(* sum to the order quantity. The fills are handed to apply_fill_to_order  *)
(* one at a time, in any order, each exactly once; a fill whose delivery   *)
(* raised is not delivered again. Delivery is weakly fair: a fill that is  *)
(* waiting is eventually delivered.                                        *)
(***************************************************************************)
DeliveryInit ==
    /\ kind = "equity"
    /\ order \in {OrderRouter_submit_order(o, "id", 0).o : o \in InitOrders("equity")}
    /\ clock = 0
    /\ last = [NoCall EXCEPT !.op = "submit", !.outcome = "id", !.called = TRUE]
    /\ PipeQuiet
    /\ paper = NewPaperBroker
    /\ LET RECURSIVE Total(_)
           Total(fills) == IF fills = <<>> THEN 0
                           ELSE Head(fills).quantity + Total(Tail(fills))
           made == {Fill(order.broker_order_id[1], order.symbol, q, p) :
                       q \in 1..MaxQty, p \in 1..MaxPrice}
       IN  undelivered \in {fills \in UNION {[1..n -> made] : n \in 1..MaxQty} :
                               Total(fills) = order.quantity}

\* One of the waiting fills is handed to FillProcessor.apply_fill_to_order.
DeliverDue ==
    /\ undelivered # <<>>
    /\ \E i \in 1..Len(undelivered) :
         LET fill == undelivered[i]
             r == FillProcessor_apply_fill_to_order(order, fill, clock + 1)
         IN  /\ order' = r.o
             /\ last' = [NoCall EXCEPT !.op = "apply_fill", !.from = order.status,
                                       !.fill = Some(fill), !.raised = r.raised]
             /\ undelivered' = SubSeq(undelivered, 1, i - 1)
                                  \o SubSeq(undelivered, i + 1, Len(undelivered))
    /\ clock' = clock + 1
    /\ UNCHANGED <<kind, pipeVars, paper>>

DeliveryNext == DeliverDue

SpecDelivery == DeliveryInit /\ [][DeliveryNext]_vars /\ WF_vars(DeliveryNext)

(***************************************************************************)
(* Spec: the signal pipeline. Each flow is one process_signal call; a step *)
(* runs a flow from one suspension point (a reply of the store or of the   *)
(* broker) to the next. Without a store client nothing suspends before the *)
(* broker call. The kill-switch endpoints run beside the flows.            *)
(***************************************************************************)
\* The signals a client sends (all pass the contract's validation): one within
\* every limit, one whose max_notional caps a larger target_exposure, one below
\* the minimum order notional, and one above the maximum that also asks for too
\* much slippage.
Signals ==
    {TradingSignal("s1", "AAPL", "BUY", 400000, 25, None),
     TradingSignal("s1", "AAPL", "BUY", 800000, 25, Some(400000)),
     TradingSignal("s2", "AAPL", "BUY", 500, 25, None),
     TradingSignal("s2", "AAPL", "SELL", 800000, 100, None)}

Reasons == {"Manual activation"}

\* States of the portfolio service: nothing known (EmptyPortfolio), a book with
\* large positions, and a small book on which strategy s1 lost more than the
\* daily limit.
Portfolios ==
    {EmptyPortfolio,
     PortfolioState([s \in {"AAPL", "MSFT"} |-> IF s = "AAPL" THEN 900000 ELSE -9000000],
                    Some(10000000), <<>>),
     PortfolioState(<<>>, Some(1000000), <<[strategy_id |-> "s1", pnl |-> -150000]>>)}

\* uuid4(): the ids of a flow are unique to it.
SignalId(f) == <<"signal", f>>
OrderId(f) == <<"order", f>>

PipeInit ==
    /\ redis_client \in BOOLEAN
    /\ kv = EmptyStore
    /\ memory_state = FALSE
    /\ zset = <<>>
    /\ memory_cache = <<>>
    /\ portfolio \in Portfolios
    /\ now = 0
    /\ flow = [f \in Flows |-> IdleFlow]
    /\ admin = IdleAdmin
    /\ admin_calls = 0
    /\ decision_log = <<>>
    /\ trade_log = <<>>
    /\ broker_calls = <<>>

Init == PipeInit /\ ExecQuiet /\ paper = NewPaperBroker /\ undelivered = <<>>

\* Lines 82-96 of process_signal: the kill switch was read active.
RejectByKillSwitch(f, fl) ==
    LET signal == fl.signal[1]
        check_results == <<Checked("kill_switch",
                                   CheckResult(FALSE, Some(KillSwitchError)))>>
    IN  /\ decision_log' =
              Append(decision_log,
                     DecisionEntry(now, SignalId(f), signal, "REJECTED",
                                   check_results, <<KillSwitchError>>))
        /\ flow' = [flow EXCEPT ![f] =
                      [fl EXCEPT !.pc = "done",
                                 !.response = Some(SignalResponse(SignalId(f), None,
                                     "REJECTED", KillSwitchError, <<KillSwitchError>>))]]
        /\ UNCHANGED <<trade_log, broker_calls>>

\* Lines 101-132 of process_signal: run_all_checks returned check_results; the
\* decision is logged and, when approved, the order is created, logged and handed
\* to the router, which calls broker.submit_order (the next suspension point).
\* halted records what is_active() would return at the moment of that call.
AfterRiskChecks(f, fl, check_results) ==
    LET signal == fl.signal[1]
        errors == ErrorsOf(check_results)
        is_valid == Len(errors) = 0
        decision == IF is_valid THEN "APPROVED" ELSE "REJECTED"
        o == NewOrder(signal.symbol, signal.side, signal.target_exposure,
                      get_order_notional(signal))
    IN  /\ decision_log' =
              Append(decision_log,
                     DecisionEntry(now, SignalId(f), signal, decision,
                                   check_results, errors))
        /\ IF ~is_valid
           THEN /\ flow' = [flow EXCEPT ![f] =
                              [fl EXCEPT !.pc = "done", !.check_results = <<>>,
                                         !.t = None,
                                         !.response = Some(SignalResponse(SignalId(f),
                                             None, "REJECTED",
                                             "Signal rejected by risk checks", errors))]]
                /\ UNCHANGED <<trade_log, broker_calls>>
           ELSE /\ trade_log' =
                      Append(trade_log,
                             TradeEntry(now, "ORDER_CREATED", OrderId(f), signal, o))
                /\ broker_calls' =
                      Append(broker_calls,
                             [flow |-> f, symbol |-> o.symbol, side |-> o.side,
                              quantity |-> o.quantity, order_type |-> "MARKET",
                              halted |-> KillSwitch_is_active(redis_client, kv,
                                                              memory_state)])
                /\ flow' = [flow EXCEPT ![f] =
                              [fl EXCEPT !.pc = "broker", !.check_results = <<>>,
                                         !.t = None, !.order = Some(o)]]

\* An exception leaves process_signal (ingest_signal answers HTTP 500).
RaiseOut(f, fl) ==
    /\ flow' = [flow EXCEPT ![f] = [fl EXCEPT !.pc = "done", !.check_results = <<>>,
                                              !.t = None, !.raised = TRUE]]
    /\ UNCHANGED <<decision_log, trade_log, broker_calls>>

\* POST /signals: process_signal starts. With a store client it suspends in
\* kill_switch.is_active(); without one it runs to the broker call or to a
\* rejection in this one step.
ReceiveSignal(f) ==
    /\ flow[f].pc = "idle"
    /\ f = "f2" => flow["f1"].pc # "idle"
    /\ \E signal \in Signals :
         LET fl == [flow[f] EXCEPT !.signal = Some(signal)]
         IN  IF redis_client
             THEN /\ flow' = [flow EXCEPT ![f] = [fl EXCEPT !.pc = "kill_get"]]
                  /\ UNCHANGED <<memory_cache, decision_log, trade_log, broker_calls>>
             ELSE IF KillSwitch_is_active(redis_client, kv, memory_state)
                  THEN /\ RejectByKillSwitch(f, fl)
                       /\ UNCHANGED memory_cache
                  ELSE LET rl == ThrottleChecker_check_rate_limit(
                                     memory_cache, signal.strategy_id, limits, now)
                       IN  /\ memory_cache' = rl.cache
                           /\ AfterRiskChecks(f, fl,
                                  Append(RiskChecks1to7(signal, limits, portfolio),
                                         Checked("rate_limit", rl)))
    /\ UNCHANGED <<redis_client, kv, memory_state, zset, portfolio, now, admin,
                   admin_calls>>
    /\ UNCHANGED <<execVars, paper, undelivered>>

\* The store answers get("kill_switch:active"). If inactive, checks 1 to 7 run
\* and the flow suspends in the per-minute zrangebyscore.
KillSwitchReply(f) ==
    /\ flow[f].pc = "kill_get"
    /\ IF KillSwitch_is_active(redis_client, kv, memory_state)
       THEN RejectByKillSwitch(f, flow[f])
       ELSE /\ flow' = [flow EXCEPT ![f] =
                          [flow[f] EXCEPT
                              !.pc = "rl_minute",
                              !.check_results =
                                  RiskChecks1to7(flow[f].signal[1], limits, portfolio),
                              !.t = Some(now)]]
            /\ UNCHANGED <<decision_log, trade_log, broker_calls>>
    /\ UNCHANGED <<redis_client, kv, memory_state, zset, memory_cache, portfolio, now,
                   admin, admin_calls>>
    /\ UNCHANGED <<execVars, paper, undelivered>>

\* The store answers the per-minute zrangebyscore (cutoff taken when it was
\* sent); the members are converted with datetime.fromtimestamp and counted.
MinuteReply(f) ==
    /\ flow[f].pc = "rl_minute"
    /\ LET fl == flow[f]
           recent_orders == StoreTimestamps(
                                zrangebyscore(zset, fl.signal[1].strategy_id,
                                              fl.t[1] - Window(1)))
       IN  IF recent_orders.raised THEN RaiseOut(f, fl)
           ELSE IF recent_orders.n >= limits.max_orders_per_strategy_per_minute
           THEN AfterRiskChecks(f, fl,
                    Append(fl.check_results,
                           Checked("rate_limit", CheckResult(FALSE, Some(MinuteError)))))
           ELSE /\ flow' = [flow EXCEPT ![f] = [fl EXCEPT !.pc = "rl_hour",
                                                          !.t = Some(now)]]
                /\ UNCHANGED <<decision_log, trade_log, broker_calls>>
    /\ UNCHANGED <<redis_client, kv, memory_state, zset, memory_cache, portfolio, now,
                   admin, admin_calls>>
    /\ UNCHANGED <<execVars, paper, undelivered>>

\* The store answers the per-hour zrangebyscore; _record_order takes now and
\* sends zadd.
HourReply(f) ==
    /\ flow[f].pc = "rl_hour"
    /\ LET fl == flow[f]
           recent_orders == StoreTimestamps(
                                zrangebyscore(zset, fl.signal[1].strategy_id,
                                              fl.t[1] - Window(60)))
       IN  IF recent_orders.raised THEN RaiseOut(f, fl)
           ELSE IF recent_orders.n >= limits.max_orders_per_strategy_per_hour
           THEN AfterRiskChecks(f, fl,
                    Append(fl.check_results,
                           Checked("rate_limit", CheckResult(FALSE, Some(HourError)))))
           ELSE /\ flow' = [flow EXCEPT ![f] = [fl EXCEPT !.pc = "rl_zadd",
                                                          !.t = Some(now)]]
                /\ UNCHANGED <<decision_log, trade_log, broker_calls>>
    /\ UNCHANGED <<redis_client, kv, memory_state, zset, memory_cache, portfolio, now,
                   admin, admin_calls>>
    /\ UNCHANGED <<execVars, paper, undelivered>>

\* The store applies zadd and answers; the flow sends expire(key, 86400).
ZaddReply(f) ==
    /\ flow[f].pc = "rl_zadd"
    /\ zset' = zadd(zset, flow[f].signal[1].strategy_id, flow[f].t[1])
    /\ flow' = [flow EXCEPT ![f] = [@ EXCEPT !.pc = "rl_expire", !.t = None]]
    /\ UNCHANGED <<redis_client, kv, memory_state, memory_cache, portfolio, now, admin,
                   admin_calls, decision_log, trade_log, broker_calls>>
    /\ UNCHANGED <<execVars, paper, undelivered>>

\* The store answers expire (24 hours: beyond the horizon of a run);
\* check_rate_limit returns valid and run_all_checks returns.
ExpireReply(f) ==
    /\ flow[f].pc = "rl_expire"
    /\ AfterRiskChecks(f, flow[f],
           Append(flow[f].check_results,
                  Checked("rate_limit", CheckResult(TRUE, None))))
    /\ UNCHANGED <<redis_client, kv, memory_state, zset, memory_cache, portfolio, now,
                   admin, admin_calls>>
    /\ UNCHANGED <<execVars, paper, undelivered>>

\* Mutant: process_signal returns after an accepted submission without
\* writing the ORDER_SUBMITTED entry.
BrokerReply_unlogged(f) ==
    /\ flow[f].pc = "broker"
    /\ LET fl == [flow[f] EXCEPT !.broker_reply = Some("id")]
           r == OrderRouter_submit_order(fl.order[1], "id", now)
       IN  flow' = [flow EXCEPT ![f] = [fl EXCEPT !.pc = "done", !.order = Some(r.o)]]
    /\ UNCHANGED <<redis_client, kv, memory_state, zset, memory_cache, portfolio, now,
                   admin, admin_calls, decision_log, trade_log, broker_calls>>
    /\ UNCHANGED <<execVars, paper, undelivered>>

\* broker.submit_order returns an id or raises; lines 79-88 of the router and
\* lines 134-153 of process_signal follow. When update_status raises inside the
\* router's except block the exception leaves process_signal (raised).
BrokerReply(f) ==
    /\ flow[f].pc = "broker"
    /\ \E outcome \in BrokerSubmitOutcomes :
         LET fl == [flow[f] EXCEPT !.broker_reply = Some(outcome)]
             signal == fl.signal[1]
             r == OrderRouter_submit_order(fl.order[1], outcome, now)
             rejected == Order_update_status(r.o, "REJECTED",
                                             [rejection_reason |-> r.err], now)
         IN  IF r.raised
             THEN /\ flow' = [flow EXCEPT ![f] =
                                [fl EXCEPT !.pc = "done", !.order = Some(r.o),
                                           !.raised = TRUE]]
                  /\ UNCHANGED trade_log
             ELSE IF r.err # None
             THEN IF rejected.raised
                  THEN /\ flow' = [flow EXCEPT ![f] =
                                     [fl EXCEPT !.pc = "done", !.order = Some(r.o),
                                                !.raised = TRUE]]
                       /\ UNCHANGED trade_log
                  ELSE /\ trade_log' =
                             Append(trade_log,
                                    TradeEntry(now, "ORDER_REJECTED", OrderId(f),
                                               signal, rejected.o))
                       /\ flow' = [flow EXCEPT ![f] =
                                     [fl EXCEPT !.pc = "done",
                                                !.order = Some(rejected.o),
                                                !.response = Some(SignalResponse(
                                                    SignalId(f), Some(OrderId(f)),
                                                    "REJECTED",
                                                    "Order submission failed",
                                                    <<r.err[1]>>))]]
             ELSE /\ trade_log' =
                        Append(trade_log,
                               TradeEntry(now, "ORDER_SUBMITTED", OrderId(f), signal, r.o))
                  /\ flow' = [flow EXCEPT ![f] =
                                [fl EXCEPT !.pc = "done", !.order = Some(r.o),
                                           !.response = Some(SignalResponse(
                                               SignalId(f), Some(OrderId(f)), "APPROVED",
                                               "Signal processed and order submitted",
                                               <<>>))]]
    /\ UNCHANGED <<redis_client, kv, memory_state, zset, memory_cache, portfolio, now,
                   admin, admin_calls, decision_log, broker_calls>>
    /\ UNCHANGED <<execVars, paper, undelivered>>

\* POST /kill-switch/activate: without a store client the flag is set at once;
\* with one, set("kill_switch:active", "1") is sent.
ActivateCall(max_calls, reasons) ==
    /\ admin.pc = "idle"
    /\ admin_calls < max_calls
    /\ admin_calls' = admin_calls + 1
    /\ \E reason \in reasons :
         IF redis_client
         THEN /\ admin' = [admin EXCEPT !.pc = "set_active", !.reason = reason,
                                        !.t = None, !.status = None]
              /\ UNCHANGED memory_state
         ELSE /\ memory_state' = TRUE
              /\ admin' = [admin EXCEPT !.reason = reason, !.completed = "activate",
                                        !.status = None]
    /\ UNCHANGED <<redis_client, kv, zset, memory_cache, portfolio, now, flow,
                   decision_log, trade_log, broker_calls>>
    /\ UNCHANGED <<execVars, paper, undelivered>>

Activate == ActivateCall(MaxAdminCalls, Reasons)

\* The store applies the pending set of activate() and answers; the next set,
\* if any, is sent (activated_at is str(datetime.now()) at that moment).
ActivateReply ==
    /\ admin.pc \in {"set_active", "set_reason", "set_activated_at"}
    /\ CASE admin.pc = "set_active" ->
              /\ kv' = [kv EXCEPT !.active = Some("1")]
              /\ admin' = [admin EXCEPT !.pc = "set_reason"]
         [] admin.pc = "set_reason" ->
              /\ kv' = [kv EXCEPT !.reason = Some(admin.reason)]
              /\ admin' = [admin EXCEPT !.pc = "set_activated_at", !.t = Some(now)]
         [] admin.pc = "set_activated_at" ->
              /\ kv' = [kv EXCEPT !.activated_at = admin.t]
              /\ admin' = [admin EXCEPT !.pc = "idle", !.t = None,
                                        !.completed = "activate"]
    /\ UNCHANGED <<redis_client, memory_state, zset, memory_cache, portfolio, now, flow,
                   admin_calls, decision_log, trade_log, broker_calls>>
    /\ UNCHANGED <<execVars, paper, undelivered>>

\* POST /kill-switch/deactivate.
DeactivateCall(max_calls, reasons) ==
    /\ admin.pc = "idle"
    /\ admin_calls < max_calls
    /\ admin_calls' = admin_calls + 1
    /\ \E reason \in reasons :
         IF redis_client
         THEN /\ admin' = [admin EXCEPT !.pc = "set_inactive", !.reason = reason,
                                        !.t = None, !.status = None]
              /\ UNCHANGED memory_state
         ELSE /\ memory_state' = FALSE
              /\ admin' = [admin EXCEPT !.reason = reason, !.completed = "deactivate",
                                        !.status = None]
    /\ UNCHANGED <<redis_client, kv, zset, memory_cache, portfolio, now, flow,
                   decision_log, trade_log, broker_calls>>
    /\ UNCHANGED <<execVars, paper, undelivered>>

DeactivationReasons == {"Manual deactivation"}

Deactivate == DeactivateCall(MaxAdminCalls, DeactivationReasons)

\* The store applies the pending set of deactivate() and answers.
DeactivateReply ==
    /\ admin.pc \in {"set_inactive", "set_deactivated_at", "set_deactivation_reason"}
    /\ CASE admin.pc = "set_inactive" ->
              /\ kv' = [kv EXCEPT !.active = Some("0")]
              /\ admin' = [admin EXCEPT !.pc = "set_deactivated_at", !.t = Some(now)]
         [] admin.pc = "set_deactivated_at" ->
              /\ kv' = [kv EXCEPT !.deactivated_at = admin.t]
              /\ admin' = [admin EXCEPT !.pc = "set_deactivation_reason", !.t = None]
         [] admin.pc = "set_deactivation_reason" ->
              /\ kv' = [kv EXCEPT !.deactivation_reason = Some(admin.reason)]
              /\ admin' = [admin EXCEPT !.pc = "idle", !.completed = "deactivate"]
    /\ UNCHANGED <<redis_client, memory_state, zset, memory_cache, portfolio, now, flow,
                   admin_calls, decision_log, trade_log, broker_calls>>
    /\ UNCHANGED <<execVars, paper, undelivered>>

\* Time passes: datetime.now() advances by one tick.
Tick ==
    /\ now < MaxTime
    /\ now' = now + 1
    /\ UNCHANGED <<redis_client, kv, memory_state, zset, memory_cache, portfolio, flow,
                   admin, admin_calls, decision_log, trade_log, broker_calls>>
    /\ UNCHANGED <<execVars, paper, undelivered>>

Next ==
    \/ \E f \in Flows : ReceiveSignal(f)
    \/ \E f \in Flows : KillSwitchReply(f)
    \/ \E f \in Flows : MinuteReply(f)
    \/ \E f \in Flows : HourReply(f)
    \/ \E f \in Flows : ZaddReply(f)
    \/ \E f \in Flows : ExpireReply(f)
    \/ \E f \in Flows : BrokerReply(f)
    \/ Activate
    \/ ActivateReply
    \/ Deactivate
    \/ DeactivateReply
    \/ Tick

Spec == Init /\ [][Next]_vars

(***************************************************************************)
(* SpecOutage: the pipeline of Spec with a kill-switch store that can be   *)
(* unavailable when process_signal reads it.                               *)
(***************************************************************************)
\* How a read of an unavailable store ends: the client answers no value
\* (None), or the call raises a connection error.
StoreFailures == {"none", "error"}

\* get("kill_switch:active") is answered by an unavailable store. With None
\* is_active() returns False and process_signal goes on to the risk checks;
\* an exception leaves is_active() and process_signal.
KillSwitchUnavailable(f) ==
    /\ flow[f].pc = "kill_get"
    /\ \E failure \in StoreFailures :
         LET fl == [flow[f] EXCEPT !.gate = failure]
         IN  IF failure = "error"
             THEN RaiseOut(f, fl)
             ELSE IF KillSwitch_is_active(redis_client, EmptyStore, memory_state)
                  THEN RejectByKillSwitch(f, fl)
                  ELSE /\ flow' = [flow EXCEPT ![f] =
                                     [fl EXCEPT
                                         !.pc = "rl_minute",
                                         !.check_results =
                                             RiskChecks1to7(fl.signal[1], limits,
                                                            portfolio),
                                         !.t = Some(now)]]
                       /\ UNCHANGED <<decision_log, trade_log, broker_calls>>
    /\ UNCHANGED <<redis_client, kv, memory_state, zset, memory_cache, portfolio, now,
                   admin, admin_calls>>
    /\ UNCHANGED <<execVars, paper, undelivered>>

OutageNext ==
    \/ Next
    \/ \E f \in Flows : KillSwitchUnavailable(f)

SpecOutage == Init /\ [][OutageNext]_vars

(***************************************************************************)
(* SpecCancel: the process_signal calls of Spec, each of which its caller  *)
(* may cancel. asyncio delivers the CancelledError where the call is       *)
(* suspended: in a store command or in broker.submit_order. It is not an   *)
(* Exception, so no except clause of the pipeline catches it.              *)
(***************************************************************************)
\* The task of flow f is cancelled while it is suspended: CancelledError is
\* raised at the await and leaves process_signal. A call cancelled inside
\* broker.submit_order gets no id back.
CancelFlow(f) ==
    /\ flow[f].pc \in {"kill_get", "rl_minute", "rl_hour", "rl_zadd", "rl_expire", "broker"}
    /\ flow' = [flow EXCEPT ![f].pc = "cancelled", ![f].raised = TRUE]
    /\ UNCHANGED <<redis_client, kv, memory_state, zset, memory_cache, portfolio, now,
                   admin, admin_calls, decision_log, trade_log, broker_calls>>
    /\ UNCHANGED <<execVars, paper, undelivered>>

CancelNext ==
    \/ \E f \in Flows : ReceiveSignal(f)
    \/ \E f \in Flows : KillSwitchReply(f)
    \/ \E f \in Flows : MinuteReply(f)
    \/ \E f \in Flows : HourReply(f)
    \/ \E f \in Flows : ZaddReply(f)
    \/ \E f \in Flows : ExpireReply(f)
    \/ \E f \in Flows : BrokerReply(f)
    \/ \E f \in Flows : CancelFlow(f)

SpecCancel == Init /\ [][CancelNext]_vars

(***************************************************************************)
(* SpecChecks: run_all_checks on two RiskCheckEngine objects, one per run, *)
(* both built from the same snapshot: the same portfolio service state,    *)
(* the same kill-switch flag and a ThrottleChecker (without a store        *)
(* client) holding the same timestamps. Here memory_cache[f] is the        *)
(* _memory_cache of the engine of run f.                                   *)
(***************************************************************************)
\* Mutant: _memory_cache as one dict shared by the ThrottleChecker objects.
EngineCache_shared(caches, f) == caches["f1"]

\* self._memory_cache of the engine of run f: a dict of its own.
EngineCache(caches, f) == caches[f]

\* The snapshot, taken at instant 0: the throttle holds no order, one order of
\* s1 recorded a minute earlier, or the orders of an hour of s2 recorded now.
ChecksInit ==
    /\ redis_client = FALSE
    /\ kv = EmptyStore
    /\ memory_state \in BOOLEAN
    /\ zset = <<>>
    /\ \E snapshot \in {<<>>, [s \in {"s1"} |-> <<-1>>],
                         [s \in {"s2"} |-> [i \in 1..MaxPerHour |-> 0]]} :
          memory_cache = [f \in Flows |-> snapshot]
    /\ portfolio \in Portfolios
    /\ now = 0
    /\ flow = [f \in Flows |-> IdleFlow]
    /\ admin = IdleAdmin
    /\ admin_calls = 0
    /\ decision_log = <<>>
    /\ trade_log = <<>>
    /\ broker_calls = <<>>
    /\ ExecQuiet
    /\ paper = NewPaperBroker /\ undelivered = <<>>

\* One run of run_all_checks (nothing suspends in it without a store client):
\* the eight checks in order, the throttle recording the order when the rate
\* limit check passes; response keeps the returned (is_valid, errors).
RunChecks(f) ==
    /\ flow[f].pc = "idle"
    /\ \E signal \in Signals :
         LET rl == ThrottleChecker_check_rate_limit(EngineCache(memory_cache, f),
                                                    signal.strategy_id, limits, now)
             check_results == Append(RiskChecks1to7(signal, limits, portfolio),
                                     Checked("rate_limit", rl))
             errors == ErrorsOf(check_results)
         IN  /\ flow' = [flow EXCEPT ![f] =
                            [@ EXCEPT !.pc = "done", !.signal = Some(signal),
                                      !.check_results = check_results, !.t = Some(now),
                                      !.response = Some([is_valid |-> Len(errors) = 0,
                                                         errors |-> errors])]]
             /\ memory_cache' = [memory_cache EXCEPT ![f] = rl.cache]
    /\ UNCHANGED <<redis_client, kv, memory_state, zset, portfolio, now, admin,
                   admin_calls, decision_log, trade_log, broker_calls>>
    /\ UNCHANGED <<execVars, paper, undelivered>>

ChecksNext ==
    \/ \E f \in Flows : RunChecks(f)
    \/ Tick

SpecChecks == ChecksInit /\ [][ChecksNext]_vars

(***************************************************************************)
(* SpecSwitch: the kill-switch endpoints alone, called one after another:  *)
(* activate, deactivate and get_status.                                    *)
(***************************************************************************)
MaxSwitchCalls == 3    \* activate() / deactivate() calls in a run of SpecSwitch

SwitchReasons == {"Manual activation", "Loss limit breached"}

SwitchActivate == ActivateCall(MaxSwitchCalls, SwitchReasons)
SwitchDeactivate == DeactivateCall(MaxSwitchCalls, DeactivationReasons)

\* GET /kill-switch/status: without a store client get_status returns at once;
\* with one, get("kill_switch:active") is sent.
GetStatus ==
    /\ admin.pc = "idle"
    /\ admin.status = None
    /\ IF redis_client
       THEN admin' = [admin EXCEPT !.pc = "get_active"]
       ELSE admin' = [admin EXCEPT !.status =
                         Some(KillSwitch_get_status(redis_client, kv, memory_state))]
    /\ UNCHANGED <<redis_client, kv, memory_state, zset, memory_cache, portfolio, now,
                   flow, admin_calls, decision_log, trade_log, broker_calls>>
    /\ UNCHANGED <<execVars, paper, undelivered>>

\* The store answers the pending get of get_status(); the next get, if any, is
\* sent, and after the last one the dict is returned.
GetStatusReply ==
    /\ admin.pc \in {"get_active", "get_reason", "get_activated_at"}
    /\ LET full == KillSwitch_get_status(redis_client, kv, memory_state)
       IN  CASE admin.pc = "get_active" ->
                  admin' = [admin EXCEPT
                               !.pc = "get_reason",
                               !.status = Some([active |-> full.active, reason |-> "",
                                                activated_at |-> Unknown])]
             [] admin.pc = "get_reason" ->
                  admin' = [admin EXCEPT
                               !.pc = "get_activated_at",
                               !.status = Some([admin.status[1] EXCEPT
                                                   !.reason = full.reason])]
             [] admin.pc = "get_activated_at" ->
                  admin' = [admin EXCEPT
                               !.pc = "idle",
                               !.status = Some([admin.status[1] EXCEPT
                                                   !.activated_at = full.activated_at])]
    /\ UNCHANGED <<redis_client, kv, memory_state, zset, memory_cache, portfolio, now,
                   flow, admin_calls, decision_log, trade_log, broker_calls>>
    /\ UNCHANGED <<execVars, paper, undelivered>>

SwitchNext ==
    \/ SwitchActivate
    \/ ActivateReply
    \/ SwitchDeactivate
    \/ DeactivateReply
    \/ GetStatus
    \/ GetStatusReply
    \/ Tick

SpecSwitch == Init /\ [][SwitchNext]_vars

(***************************************************************************)
(* SpecPaper: the paper broker with two concurrent callers: the order      *)
(* router of the class of the order ("router"), which submits the order,   *)
(* and a client that calls the broker directly ("client"). A submit call   *)
(* is suspended in asyncio.sleep twice: before the order is recorded and   *)
(* before it is filled; a step runs a call from one sleep to the next.     *)
(***************************************************************************)
\* The first lines of a submit call: the id is made from a new uuid4 and the
\* call sleeps (0.01 s) before it records the order.
StartCall(c, op, prefix, args) ==
    [paper EXCEPT !.uuids = @ + 1,
                  !.calls[c] = [IdleCall EXCEPT !.pc = "sleep_submit", !.op = op,
                                                !.id = Some(<<prefix, paper.uuids + 1>>),
                                                !.args = Some(args)]]

\* The client calls submit_order; any order_type but MARKET raises BrokerError
\* before anything is recorded.
ClientSubmitOrder ==
    /\ paper.calls["client"].pc = "idle"
    /\ \E symbol \in Symbols \cup {"XYZ"}, side \in {"BUY", "SELL"},
          quantity \in {1, MaxQty}, order_type \in {"MARKET", "LIMIT"} :
         LET args == [symbol |-> symbol, side |-> side, quantity |-> quantity,
                      order_type |-> order_type]
         IN  paper' = IF order_type # "MARKET"
                      THEN [paper EXCEPT !.calls["client"] =
                               [IdleCall EXCEPT !.pc = "done", !.op = "submit_order",
                                                !.args = Some(args), !.raised = TRUE]]
                      ELSE StartCall("client", "submit_order", "PAPER_", args)
    /\ UNCHANGED <<execVars, pipeVars, undelivered>>

\* The client calls submit_option_order.
ClientSubmitOptionOrder ==
    /\ paper.calls["client"].pc = "idle"
    /\ \E leg \in SpreadLegs, limit_price \in {None, Some(0), Some(25000)} :
         paper' = StartCall("client", "submit_option_order", "PAPER_OPT_",
                            [leg |-> leg, limit_price |-> limit_price])
    /\ UNCHANGED <<execVars, pipeVars, undelivered>>

\* The client calls submit_option_spread.
ClientSubmitOptionSpread ==
    /\ paper.calls["client"].pc = "idle"
    /\ \E o \in InitOrders("spread"), limit_price \in {None, Some(15000)} :
         paper' = StartCall("client", "submit_option_spread", "PAPER_SPREAD_",
                            [legs |-> o.legs, limit_price |-> limit_price])
    /\ UNCHANGED <<execVars, pipeVars, undelivered>>

\* The router of the order's class starts its submission: OrderRouter calls
\* submit_order with MARKET; OptionOrderRouter validates first and, on a
\* validation error, rejects the order without a broker call.
RouterSubmitToPaper ==
    /\ paper.calls["router"].pc = "idle"
    /\ LET verr == CASE kind = "equity" -> None
                     [] kind = "option" -> validate_option_order(order)
                     [] kind = "spread" -> validate_spread_order(order)
           rv == UpdateStatusOf(kind, order, "REJECTED", [rejection_reason |-> verr],
                                clock + 1)
       IN  IF verr # None
           THEN /\ order' = rv.o
                /\ paper' = [paper EXCEPT !.calls["router"].pc = "done"]
                /\ last' = [NoCall EXCEPT !.op = "submit", !.from = order.status,
                                          !.raised = rv.raised, !.err = verr]
           ELSE /\ paper' =
                     CASE kind = "equity" ->
                            StartCall("router", "submit_order", "PAPER_",
                                      [symbol |-> order.symbol, side |-> order.side,
                                       quantity |-> order.quantity,
                                       order_type |-> "MARKET"])
                       [] kind = "option" ->
                            StartCall("router", "submit_option_order", "PAPER_OPT_",
                                      [leg |-> order.leg,
                                       limit_price |-> order.limit_price])
                       [] kind = "spread" ->
                            StartCall("router", "submit_option_spread", "PAPER_SPREAD_",
                                      [legs |-> order.legs,
                                       limit_price |-> order.limit_price])
                /\ UNCHANGED <<order, last>>
    /\ clock' = clock + 1
    /\ UNCHANGED <<kind, pipeVars, undelivered>>

\* A submit call wakes from its first sleep and records the order.
PaperRecord(c) ==
    /\ paper.calls[c].pc = "sleep_submit"
    /\ LET call == paper.calls[c]
           id == call.id[1]
           a == call.args[1]
       IN  paper' =
             CASE call.op = "submit_order" ->
                    [paper EXCEPT !.calls[c].pc = "sleep_fill",
                                  !.orders = DictPut(@, id,
                                      [symbol |-> a.symbol, side |-> a.side,
                                       quantity |-> a.quantity, status |-> "SUBMITTED"])]
               [] call.op = "submit_option_order" ->
                    [paper EXCEPT !.calls[c].pc = "sleep_fill",
                                  !.option_orders = DictPut(@, id,
                                      [contract_symbol |-> get_contract_symbol(a.leg),
                                       leg |-> a.leg, status |-> "SUBMITTED"])]
               [] call.op = "submit_option_spread" ->
                    [paper EXCEPT !.calls[c].pc = "sleep_fill",
                                  !.option_orders = DictPut(@, id,
                                      [legs |-> a.legs, status |-> "SUBMITTED",
                                       is_spread |-> TRUE])]
    /\ UNCHANGED <<execVars, pipeVars, undelivered>>

\* A submit call wakes from the sleep of its fill simulation, records the
\* fill or fills and returns the id; the router then keeps the id on its
\* order and moves it to SUBMITTED (nothing suspends in between).
PaperFill(c) ==
    /\ paper.calls[c].pc = "sleep_fill"
    /\ LET call == paper.calls[c]
           id == call.id[1]
           a == call.args[1]
           p1 == CASE call.op = "submit_order" ->
                        PaperBroker_simulate_fill(paper, id, a.symbol, a.side, a.quantity)
                   [] call.op = "submit_option_order" ->
                        PaperBroker_simulate_option_fill(paper, id, a.leg, a.limit_price)
                   [] call.op = "submit_option_spread" ->
                        PaperBroker_simulate_spread_fill(paper, id, a.legs, a.limit_price)
           r == UpdateStatusOf(kind, [order EXCEPT !.broker_order_id = Some(id)],
                               "SUBMITTED", <<>>, clock + 1)
       IN  /\ paper' = [p1 EXCEPT !.calls[c].pc = "done", !.calls[c].result = Some(id)]
           /\ IF c = "router"
              THEN /\ order' = r.o
                   /\ clock' = clock + 1
                   /\ last' = [NoCall EXCEPT !.op = "submit", !.from = order.status,
                                             !.outcome = "id", !.called = TRUE,
                                             !.raised = r.raised]
              ELSE UNCHANGED <<order, clock, last>>
    /\ UNCHANGED <<kind, pipeVars, undelivered>>

\* Someone calls cancel_order with an id of the broker's books or an unknown id.
PaperCancel ==
    /\ \E id \in DOMAIN paper.orders \cup {<<"PAPER_", 0>>} :
         /\ PaperBroker_cancel_order(paper, id).p # paper
         /\ paper' = PaperBroker_cancel_order(paper, id).p
    /\ UNCHANGED <<execVars, pipeVars, undelivered>>

PaperNext ==
    \/ ClientSubmitOrder
    \/ ClientSubmitOptionOrder
    \/ ClientSubmitOptionSpread
    \/ RouterSubmitToPaper
    \/ \E c \in DOMAIN paper.calls : PaperRecord(c)
    \/ \E c \in DOMAIN paper.calls : PaperFill(c)
    \/ PaperCancel

SpecPaper == ExecInit /\ [][PaperNext]_vars

(***************************************************************************)
(* Claims about the signal pipeline (checked under Spec).                  *)
(***************************************************************************)
\* The value is_active() returns in the current state.
SwitchActive ==
    \/ redis_client /\ kv.active = Some("1")
    \/ ~redis_client /\ memory_state

\* This step is the one in which flow f learns the state of the kill switch.
ReadsSwitch(f) ==
    IF redis_client
    THEN flow[f].pc = "kill_get" /\ flow'[f].pc # "kill_get"
    ELSE flow[f].pc = "idle" /\ flow'[f].pc # "idle"

DecisionsOf(log, f) ==
    LET Mine(e) == e.signal_id = SignalId(f)
    IN  SelectSeq(log, Mine)

TradesOf(log, f) ==
    LET Mine(e) == e.order_id = OrderId(f)
    IN  SelectSeq(log, Mine)

CallsOf(calls, f) ==
    LET Mine(c) == c.flow = f
    IN  SelectSeq(calls, Mine)

\* C1: when is_active() is true at the start of process_signal, the call returns
\* REJECTED, appends exactly one decision entry, whose check_results marks
\* kill_switch invalid, records no throttle timestamp, creates no order, writes
\* no trade entry and makes no broker call.
C1_KillSwitchGate ==
    [][\A f \in Flows :
          (ReadsSwitch(f) /\ SwitchActive) =>
              /\ flow'[f].pc = "done"
              /\ ~flow'[f].raised
              /\ flow'[f].response # None
              /\ flow'[f].response[1].status = "REJECTED"
              /\ flow'[f].order = None
              /\ Len(decision_log') = Len(decision_log) + 1
              /\ SubSeq(decision_log', 1, Len(decision_log)) = decision_log
              /\ Len(DecisionsOf(decision_log', f)) = 1
              /\ LET e == decision_log'[Len(decision_log')]
                 IN  /\ e.signal_id = SignalId(f)
                     /\ e.decision = "REJECTED"
                     /\ Len(e.check_results) = 1
                     /\ e.check_results[1].name = "kill_switch"
                     /\ ~e.check_results[1].valid
              /\ zset' = zset
              /\ memory_cache' = memory_cache
              /\ trade_log' = trade_log
              /\ TradesOf(trade_log', f) = <<>>
              /\ broker_calls' = broker_calls
              /\ CallsOf(broker_calls', f) = <<>>]_vars

\* C1 witness: with a store client, the first flow's order reached the broker,
\* the switch was then activated, and the second flow was rejected at the gate.
C1_Witness ==
    /\ redis_client
    /\ SwitchActive
    /\ CallsOf(broker_calls, "f1") # <<>>
    /\ flow["f2"].pc = "done"
    /\ flow["f2"].response # None
    /\ flow["f2"].response[1].message = KillSwitchError
    /\ Len(DecisionsOf(decision_log, "f2")) = 1

\* C2: no broker submit_order call is issued at a moment when the kill switch
\* is active.
C2_NoSubmitWhileHalted ==
    \A i \in 1..Len(broker_calls) : ~broker_calls[i].halted

WithinOrderLimits(usd) ==
    /\ usd >= limits.min_order_notional_usd
    /\ usd <= limits.max_order_notional_usd

\* C3: every order handed to the broker has its notional and the USD amount
\* sent as its quantity within [min_order_notional_usd, max_order_notional_usd].
C3_OrderWithinSizeLimits ==
    \A i \in 1..Len(broker_calls) :
        /\ WithinOrderLimits(flow[broker_calls[i].flow].order[1].notional)
        /\ WithinOrderLimits(broker_calls[i].quantity)

(***************************************************************************)
(* Claims about the order state machines and the fill processors           *)
(* (checked under SpecExec and SpecLifecycle).                             *)
(***************************************************************************)
NonTerminalStatuses == {"PENDING", "SUBMITTED", "PARTIALLY_FILLED"}

\* The permitted edges as the specification lists them.
PermittedEdges(status) ==
    CASE status = "PENDING" -> {"SUBMITTED", "REJECTED", "CANCELLED"}
      [] status = "SUBMITTED" -> {"PARTIALLY_FILLED", "FILLED", "CANCELLED", "FAILED"}
      [] status = "PARTIALLY_FILLED" -> {"FILLED", "CANCELLED", "FAILED"}
      [] OTHER -> {}

\* C4: update_status called on an Order, OptionOrder or OptionSpreadOrder in
\* PENDING, SUBMITTED or PARTIALLY_FILLED moves the status along a permitted
\* edge; any other target raises and leaves every field of the order unchanged.
C4_LegalTransitionsOnly ==
    [][(last'.op = "update_status" /\ order.status \in NonTerminalStatuses) =>
          IF last'.target \in PermittedEdges(order.status)
          THEN ~last'.raised /\ order'.status = last'.target
          ELSE last'.raised /\ order' = order]_vars

\* C4 witness: an illegal target was tried on a SUBMITTED order and raised.
C4_Witness ==
    /\ last.op = "update_status"
    /\ last.from = "SUBMITTED"
    /\ last.target = "PENDING"
    /\ last.raised
    /\ order.status = "SUBMITTED"

\* C5: once the status is FILLED, CANCELLED, REJECTED or FAILED, no later
\* operation changes it.
C5_TerminalAbsorbing ==
    [][is_terminal(order) => order'.status = order.status]_vars

\* C6: in every reachable state an equity order has filled_quantity <= quantity
\* and filled_notional <= notional.
C6_FillBounds ==
    kind = "equity" =>
        /\ order.filled_quantity <= order.quantity
        /\ order.filled_notional <= order.notional

FillMatchesOrder(o, fill) ==
    fill.symbol = o.symbol /\ Some(fill.broker_order_id) = o.broker_order_id

\* C7: every matching fill applied to a SUBMITTED or PARTIALLY_FILLED equity
\* order is accepted; below the order quantity the result is PARTIALLY_FILLED
\* with the fill accumulated, otherwise FILLED with both amounts clamped.
C7_EquityFillSequence ==
    [][(/\ kind = "equity"
        /\ last'.op = "apply_fill"
        /\ order.status \in {"SUBMITTED", "PARTIALLY_FILLED"}
        /\ FillMatchesOrder(order, last'.fill[1])) =>
          /\ ~last'.raised
          /\ IF order.filled_quantity + last'.fill[1].quantity < order.quantity
             THEN /\ order'.status = "PARTIALLY_FILLED"
                  /\ order'.filled_quantity =
                         order.filled_quantity + last'.fill[1].quantity
                  /\ order'.filled_notional =
                         order.filled_notional
                           + last'.fill[1].quantity * last'.fill[1].price
             ELSE /\ order'.status = "FILLED"
                  /\ order'.filled_quantity = order.quantity
                  /\ order'.filled_notional = order.notional]_vars

OptionFillMatchesOrder(o, fill) ==
    /\ fill.contract_symbol = get_contract_symbol(o.leg)
    /\ Some(fill.broker_order_id) = o.broker_order_id

\* C8: apply_fill_to_order (equity and single-leg option) with a fill whose
\* symbol / contract symbol or broker_order_id differs from the order's raises,
\* and status, filled quantity, filled notional and average price are unchanged.
C8_FillMismatch ==
    [][(last'.op = "apply_fill" /\ kind \in {"equity", "option"}) =>
          IF kind = "equity"
          THEN ~FillMatchesOrder(order, last'.fill[1]) =>
                  /\ last'.raised
                  /\ order'.status = order.status
                  /\ order'.filled_quantity = order.filled_quantity
                  /\ order'.filled_notional = order.filled_notional
                  /\ order'.average_fill_price = order.average_fill_price
          ELSE ~OptionFillMatchesOrder(order, last'.fill[1]) =>
                  /\ last'.raised
                  /\ order'.status = order.status
                  /\ order'.filled_quantity = order.filled_quantity
                  /\ order'.filled_price = order.filled_price]_vars

\* C8 witness: a fill for the right symbol but another broker_order_id was
\* delivered to a partially filled equity order and raised.
C8_Witness ==
    /\ kind = "equity"
    /\ last.op = "apply_fill"
    /\ last.raised
    /\ order.status = "PARTIALLY_FILLED"
    /\ last.fill[1].symbol = order.symbol
    /\ Some(last.fill[1].broker_order_id) # order.broker_order_id

\* C9: the filled quantity recorded for every leg of an option order or spread
\* is at most that leg's quantity.
C9_OptionFillBounds ==
    /\ kind = "option" => order.filled_quantity <= order.leg.quantity
    /\ kind = "spread" =>
          \A i \in 1..Len(order.legs) :
              DictGet(order.leg_fills, get_contract_symbol(order.legs[i]), 0)
                  <= order.legs[i].quantity

\* C10: is_fully_filled() is true exactly when, for every leg, the filled
\* quantity recorded under the leg's contract symbol equals the leg's quantity.
C10_FullyFilledIff ==
    kind = "spread" =>
        (is_fully_filled(order) <=>
            \A i \in 1..Len(order.legs) :
                DictGet(order.leg_fills, get_contract_symbol(order.legs[i]), 0)
                    = order.legs[i].quantity)

\* The fill names the contract of the leg it is applied to.
SpreadFillMatchesLeg(o, fill, i) ==
    fill.contract_symbol = get_contract_symbol(o.legs[i])

\* C11: every matching fill applied to a SUBMITTED or PARTIALLY_FILLED spread
\* is accepted, and afterwards the status is FILLED if every leg is at its full
\* quantity, and otherwise PARTIALLY_FILLED if some leg has a nonzero fill.
C11_SpreadFillStatus ==
    [][(/\ kind = "spread"
        /\ last'.op = "apply_fill"
        /\ order.status \in {"SUBMITTED", "PARTIALLY_FILLED"}
        /\ SpreadFillMatchesLeg(order, last'.fill[1], last'.leg[1])) =>
          /\ ~last'.raised
          /\ IF \A i \in 1..Len(order'.legs) :
                    DictGet(order'.leg_fills, get_contract_symbol(order'.legs[i]), 0)
                        = order'.legs[i].quantity
             THEN order'.status = "FILLED"
             ELSE (\E i \in 1..Len(order'.legs) :
                      DictGet(order'.leg_fills, get_contract_symbol(order'.legs[i]), 0) > 0)
                  => order'.status = "PARTIALLY_FILLED"]_vars

(***************************************************************************)
(* Claims about the risk checks, the throttle and the kill switch.         *)
(***************************************************************************)
\* The keys of check_results in the order run_all_checks writes them.
CheckNames ==
    <<"order_notional", "slippage", "position_limit", "total_exposure",
      "single_asset_exposure", "strategy_daily_loss", "total_daily_loss", "rate_limit">>

\* The decision entries written after run_all_checks returned.
IsRiskDecision(e) == e.check_results[1].name # "kill_switch"

FailedChecks(e) == {k \in 1..Len(e.check_results) : ~e.check_results[k].valid}

\* errors holds the message of every failed check, and nothing else.
ErrorsMatchFailures(e) ==
    /\ Len(e.errors) = Cardinality(FailedChecks(e))
    /\ \A k \in FailedChecks(e) :
          \E j \in 1..Len(e.errors) : e.errors[j] = e.check_results[k].error[1]

\* C12: whatever the earlier checks returned, run_all_checks evaluates all
\* eight checks: check_results has exactly the eight entries, errors holds one
\* message per failed check, and the result is approved iff all eight are valid.
C12_AllChecksRun ==
    \A i \in 1..Len(decision_log) :
        LET e == decision_log[i]
        IN  IsRiskDecision(e) =>
              /\ [k \in 1..Len(e.check_results) |-> e.check_results[k].name] = CheckNames
              /\ ErrorsMatchFailures(e)
              /\ (e.decision = "APPROVED") <=> (FailedChecks(e) = {})

\* C12 witness: a decision whose first two checks failed and that still carries
\* all eight results.
C12_Witness ==
    \E i \in 1..Len(decision_log) :
        /\ IsRiskDecision(decision_log[i])
        /\ {1, 2} \subseteq FailedChecks(decision_log[i])
        /\ Len(decision_log[i].check_results) = 8
        /\ decision_log[i].decision = "REJECTED"

Strategies == {sg.strategy_id : sg \in Signals}

\* The number of timestamps recorded for the strategy at or after cutoff, in
\* the throttle's store or in its in-memory cache.
RecordedSince(sid, cutoff) ==
    IF redis_client
    THEN Cardinality(zrangebyscore(zset, sid, cutoff))
    ELSE Len(MemoryTimestamps(memory_cache, sid, cutoff))

\* The pcs at which a flow is inside check_rate_limit.
ThrottlePcs == {"rl_minute", "rl_hour", "rl_zadd", "rl_expire"}

\* No other process_signal call is inside check_rate_limit.
AloneInThrottle(f) == \A g \in Flows \ {f} : flow[g].pc \notin ThrottlePcs

\* The rate_limit result of the decision entry written by this step.
RateLimitLogged(valid) ==
    /\ Len(decision_log') = Len(decision_log) + 1
    /\ LET e == decision_log'[Len(decision_log')]
           rl == e.check_results[Len(e.check_results)]
       IN  rl.name = "rate_limit" /\ rl.valid = valid

\* C13: check_rate_limit fails and leaves the strategy's timestamps unchanged
\* when the count in the last minute or in the last hour has reached its limit;
\* otherwise it succeeds and adds exactly one timestamp, now; the timestamps of
\* the other strategies are never changed.
C13_RateLimitCheck ==
    [][\A f \in Flows :
          /\ (/\ ~redis_client
              /\ flow[f].pc = "idle" /\ flow'[f].pc # "idle"
              /\ ~SwitchActive) =>
                LET sid == flow'[f].signal[1].strategy_id
                    over ==
                      \/ RecordedSince(sid, now - Window(1))
                           >= limits.max_orders_per_strategy_per_minute
                      \/ RecordedSince(sid, now - Window(60))
                           >= limits.max_orders_per_strategy_per_hour
                IN  /\ ~flow'[f].raised
                    /\ IF over
                       THEN RateLimitLogged(FALSE) /\ memory_cache' = memory_cache
                       ELSE /\ RateLimitLogged(TRUE)
                            /\ DictGet(memory_cache', sid, <<>>)
                                 = Append(DictGet(memory_cache, sid, <<>>), now)
                    /\ \A other \in Strategies \ {sid} :
                          DictGet(memory_cache', other, <<>>)
                             = DictGet(memory_cache, other, <<>>)
          /\ (/\ redis_client
              /\ AloneInThrottle(f)
              /\ flow[f].pc \in {"rl_minute", "rl_hour"}
              /\ flow'[f].pc # flow[f].pc) =>
                LET sid == flow[f].signal[1].strategy_id
                    window == IF flow[f].pc = "rl_minute" THEN Window(1) ELSE Window(60)
                    limit == IF flow[f].pc = "rl_minute"
                             THEN limits.max_orders_per_strategy_per_minute
                             ELSE limits.max_orders_per_strategy_per_hour
                    over == RecordedSince(sid, flow[f].t[1] - window) >= limit
                IN  /\ ~flow'[f].raised
                    /\ zset' = zset
                    /\ IF over THEN RateLimitLogged(FALSE)
                       ELSE flow'[f].pc \in {"rl_hour", "rl_zadd"}
          /\ (/\ redis_client
              /\ AloneInThrottle(f)
              /\ flow[f].pc = "rl_zadd"
              /\ flow'[f].pc # "rl_zadd") =>
                LET sid == flow[f].signal[1].strategy_id
                IN  /\ Cardinality(DOMAIN DictGet(zset', sid, <<>>))
                         = Cardinality(DOMAIN DictGet(zset, sid, <<>>)) + 1
                    /\ \A other \in Strategies \ {sid} :
                          DictGet(zset', other, <<>>) = DictGet(zset, other, <<>>)]_vars

\* C14: in every reachable state, for every strategy, at most
\* max_orders_per_strategy_per_minute timestamps are recorded within the
\* trailing minute and at most max_orders_per_strategy_per_hour within the
\* trailing hour, whatever the interleaving of the calls.
C14_RateLimitUnderConcurrency ==
    \A sid \in Strategies :
        /\ RecordedSince(sid, now - Window(1)) <= limits.max_orders_per_strategy_per_minute
        /\ RecordedSince(sid, now - Window(60)) <= limits.max_orders_per_strategy_per_hour

\* C15: a process_signal call whose kill-switch read found the store
\* unavailable is rejected as halted and makes no broker call.
C15_KillSwitchFailsClosed ==
    \A f \in Flows :
        flow[f].gate # "ok" =>
            /\ flow[f].pc = "done"
            /\ ~flow[f].raised
            /\ flow[f].response # None
            /\ flow[f].response[1].status = "REJECTED"
            /\ flow[f].response[1].message = KillSwitchError
            /\ CallsOf(broker_calls, f) = <<>>

\* C16: is_active() is false before any call, and between calls it is true
\* exactly when the last completed call was activate(); the active field of
\* get_status() agrees with is_active().
C16_KillSwitchToggling ==
    admin.pc = "idle" =>
        /\ KillSwitch_is_active(redis_client, kv, memory_state)
              <=> (admin.completed = "activate")
        /\ admin.status # None =>
              (admin.status[1].active
                  <=> KillSwitch_is_active(redis_client, kv, memory_state))

\* C16 witness: with a store client, activate() and then deactivate() completed,
\* and get_status() was called afterwards.
C16_Witness ==
    /\ redis_client
    /\ admin.pc = "idle"
    /\ admin.completed = "deactivate"
    /\ kv.active = Some("0")
    /\ kv.activated_at # None
    /\ admin.status # None
    /\ ~admin.status[1].active

\* C17: after activate(r) completed, get_status() reports active with reason r
\* and an activation timestamp; after deactivate(r2) completed, r2 and a
\* deactivation timestamp are recorded.
C17_ReasonRecorded ==
    /\ (admin.pc = "idle" /\ admin.completed = "activate" /\ admin.status # None) =>
          /\ admin.status[1].active
          /\ admin.status[1].reason = admin.reason
          /\ admin.status[1].activated_at[1] = "datetime"
    /\ (admin.pc = "idle" /\ admin.completed = "deactivate" /\ redis_client) =>
          /\ kv.deactivation_reason = Some(admin.reason)
          /\ kv.deactivated_at # None

(***************************************************************************)
(* Claims about the audit trail of process_signal.                         *)
(***************************************************************************)
EventsOf(log, f) ==
    [k \in 1..Len(TradesOf(log, f)) |-> TradesOf(log, f)[k].event]

\* C18: when the broker accepts the order of an approved signal, the call has
\* written one decision entry APPROVED, then ORDER_CREATED, then
\* ORDER_SUBMITTED with the broker id, no ORDER_REJECTED, and returns APPROVED
\* with the order id.
C18_ApprovedPathAudit ==
    [][\A f \in Flows :
          (flow[f].pc = "broker" /\ flow'[f].broker_reply = Some("id")) =>
              /\ flow'[f].pc = "done"
              /\ ~flow'[f].raised
              /\ flow'[f].response # None
              /\ flow'[f].response[1].status = "APPROVED"
              /\ flow'[f].response[1].order_id = Some(OrderId(f))
              /\ Len(DecisionsOf(decision_log', f)) = 1
              /\ DecisionsOf(decision_log', f)[1].decision = "APPROVED"
              /\ EventsOf(trade_log', f) = <<"ORDER_CREATED", "ORDER_SUBMITTED">>
              /\ LET created == TradesOf(trade_log', f)[1]
                     submitted == TradesOf(trade_log', f)[2]
                 IN  /\ DecisionsOf(decision_log', f)[1].timestamp <= created.timestamp
                     /\ created.timestamp <= submitted.timestamp
                     /\ submitted.broker_order_id # None
                     /\ submitted.broker_order_id = flow'[f].order[1].broker_order_id]_vars

\* C18 witness: the first flow's order was accepted by the broker and the call
\* returned APPROVED.
C18_Witness ==
    /\ flow["f1"].pc = "done"
    /\ flow["f1"].broker_reply = Some("id")
    /\ flow["f1"].response # None
    /\ flow["f1"].response[1].status = "APPROVED"
    /\ EventsOf(trade_log, "f1") = <<"ORDER_CREATED", "ORDER_SUBMITTED">>

\* The flow whose signal a decision entry belongs to.
FlowOf(e) == CHOOSE f \in Flows : SignalId(f) = e.signal_id

\* C19: when run_all_checks rejects the signal, process_signal writes exactly
\* one decision entry, REJECTED, with the eight check results and the errors,
\* creates no order, writes no trade entry, makes no broker call, and returns
\* REJECTED with those errors and no order id.
C19_RiskRejection ==
    \A i \in 1..Len(decision_log) :
        LET e == decision_log[i]
            f == FlowOf(e)
        IN  (IsRiskDecision(e) /\ FailedChecks(e) # {}) =>
              /\ e.decision = "REJECTED"
              /\ Len(DecisionsOf(decision_log, f)) = 1
              /\ Len(e.check_results) = 8
              /\ ErrorsMatchFailures(e)
              /\ flow[f].order = None
              /\ TradesOf(trade_log, f) = <<>>
              /\ CallsOf(broker_calls, f) = <<>>
              /\ flow[f].pc = "done"
              /\ flow[f].response # None
              /\ flow[f].response[1].status = "REJECTED"
              /\ flow[f].response[1].errors = e.errors
              /\ flow[f].response[1].order_id = None

\* C19 witness: a signal was rejected by the rate limit alone, after another
\* signal of the same strategy had been approved.
C19_Witness ==
    \E i \in 1..Len(decision_log) :
        /\ FailedChecks(decision_log[i]) = {8}
        /\ decision_log[i].decision = "REJECTED"
        /\ flow[FlowOf(decision_log[i])].response # None
        /\ flow[FlowOf(decision_log[i])].response[1].message
              = "Signal rejected by risk checks"

\* C20: when the broker submission of an approved signal fails, the order ends
\* in REJECTED with the error as rejection_reason, exactly one ORDER_REJECTED
\* entry follows the ORDER_CREATED entry, no ORDER_SUBMITTED entry is written,
\* and process_signal returns REJECTED with the order id and the error.
C20_SubmissionFailure ==
    [][\A f \in Flows :
          (flow[f].pc = "broker" /\ flow'[f].broker_reply = Some("error")) =>
              /\ flow'[f].pc = "done"
              /\ ~flow'[f].raised
              /\ flow'[f].order[1].status = "REJECTED"
              /\ flow'[f].order[1].rejection_reason # None
              /\ EventsOf(trade_log', f) = <<"ORDER_CREATED", "ORDER_REJECTED">>
              /\ flow'[f].response # None
              /\ flow'[f].response[1].status = "REJECTED"
              /\ flow'[f].response[1].order_id = Some(OrderId(f))
              /\ flow'[f].response[1].errors
                    = <<flow'[f].order[1].rejection_reason[1]>>]_vars

\* C21: a router submission of a PENDING order (a valid one, for the option
\* router) that the broker answers with an id leaves the order SUBMITTED with
\* that id and returns no error; one the broker answers by raising leaves the
\* order FAILED with the error string as rejection_reason and no
\* broker_order_id, and returns the error.
C21_RouterSubmissionOutcome ==
    [][(/\ last'.op = "submit"
        /\ order.status = "PENDING"
        /\ (kind = "option" => validate_option_order(order) = None)
        /\ (kind = "spread" => validate_spread_order(order) = None)) =>
           /\ ~last'.raised
           /\ (last'.outcome = "id" =>
                  /\ order'.status = "SUBMITTED"
                  /\ order'.broker_order_id = Some(FreshBrokerId(clock'))
                  /\ last'.err = None)
           /\ (last'.outcome = "error" =>
                  /\ order'.status = "FAILED"
                  /\ last'.err # None
                  /\ order'.rejection_reason = last'.err
                  /\ order'.broker_order_id = None)]_vars

\* C22: cancel_order and cancel_option_order on an order that is terminal or
\* has no broker_order_id return failure without calling the broker and leave
\* the order unchanged; they call broker.cancel_order exactly for a
\* non-terminal order that has a broker id.
C22_CancelRefusal ==
    [][last'.op = "cancel" =>
          /\ ((is_terminal(order) \/ order.broker_order_id = None) =>
                 /\ ~last'.called
                 /\ last'.err # None
                 /\ order' = order)
          /\ (last'.called <=> (~is_terminal(order) /\ order.broker_order_id # None))]_vars

\* A cancel was refused for a terminal order that does have a broker id.
C22_Witness ==
    /\ last.op = "cancel"
    /\ ~last.called
    /\ last.err # None
    /\ is_terminal(order)
    /\ order.broker_order_id # None

\* C23: an option order or spread that fails validation (an expiration that is
\* not in the future, legs of different underlyings or expirations) is left
\* REJECTED by the router with the validation error as rejection_reason and
\* the broker is never called; so a router submission that leaves an order
\* REJECTED made no broker call, and an order becomes FAILED only in a
\* submission that called the broker.
C23_ValidationBeforeSubmission ==
    [][LET invalid ==
             \/ /\ kind = "option"
                /\ DateLeq(order.leg.expiration, Today)
             \/ /\ kind = "spread"
                /\ \E i \in 1..Len(order.legs) :
                      \/ DateLeq(order.legs[i].expiration, Today)
                      \/ order.legs[i].symbol # order.legs[1].symbol
                      \/ order.legs[i].expiration # order.legs[1].expiration
       IN  /\ (last'.op = "submit" /\ invalid) =>
                  /\ ~last'.called
                  /\ ~last'.raised
                  /\ order'.status = "REJECTED"
                  /\ last'.err # None
                  /\ order'.rejection_reason = last'.err
                  /\ order'.broker_order_id = None
           /\ (last'.op = "submit" /\ kind # "equity" /\ order'.status = "REJECTED") =>
                  ~last'.called
           /\ (order.status # "FAILED" /\ order'.status = "FAILED") =>
                  (last'.op = "submit" /\ last'.called)]_vars

\* The router refused a spread whose legs are on different underlyings, and
\* made no broker call.
C23_Witness ==
    /\ last.op = "submit"
    /\ kind = "spread"
    /\ ~last.called
    /\ order.status = "REJECTED"
    /\ order.rejection_reason = Some("All legs must have same underlying")
    /\ order.broker_order_id = None

\* C24: when the broker keeps the base adapter's default submit_option_order or
\* submit_option_spread, the router's submission of a valid order leaves the
\* order REJECTED, not FAILED, and returns the unsupported error.
C24_UnsupportedCapability ==
    [][(/\ last'.op = "submit"
        /\ last'.outcome = "unsupported"
        /\ last'.called) =>
           /\ ~last'.raised
           /\ order'.status = "REJECTED"
           /\ last'.err \in {Some("Option orders not supported by this broker"),
                             Some("Option spreads not supported by this broker")}]_vars

(***************************************************************************)
(* Claims about the paper broker (checked under SpecPaper).                *)
(***************************************************************************)
\* C25: a submit_order call with order_type MARKET returns an id prefixed
\* PAPER_ that no other call was given; from its return on,
\* get_order_status(id) reports FILLED and get_fills(id) holds exactly one
\* fill, of the submitted quantity and at a positive price. A call with any
\* other order_type raises, and no order and no fill is recorded for it: all
\* that the books hold is under ids of MARKET calls.
C25_PaperEquitySubmission ==
    /\ \A c \in DOMAIN paper.calls :
          LET call == paper.calls[c]
          IN  call.op = "submit_order" =>
                /\ call.raised <=> call.args[1].order_type # "MARKET"
                /\ call.raised => (call.pc = "done" /\ call.id = None /\ call.result = None)
                /\ (call.pc = "done" /\ ~call.raised) =>
                      LET id == call.id[1]
                          st == PaperBroker_get_order_status(paper, id)
                          fills == PaperBroker_get_fills(paper, id)
                      IN  /\ call.result = Some(id)
                          /\ id[1] = "PAPER_"
                          /\ \A d \in DOMAIN paper.calls \ {c} : paper.calls[d].id # Some(id)
                          /\ ~st.raised
                          /\ st.order[1].status = "FILLED"
                          /\ Len(fills) = 1
                          /\ fills[1].quantity = call.args[1].quantity
                          /\ fills[1].price > 0
    /\ \A id \in DOMAIN paper.orders \cup DOMAIN paper.fills :
          \E c \in DOMAIN paper.calls :
              /\ paper.calls[c].id = Some(id)
              /\ paper.calls[c].op = "submit_order"
              /\ paper.calls[c].args[1].order_type = "MARKET"

\* The client's LIMIT order was refused, and the router's MARKET order was
\* filled and its id returned: it is the only order on the books.
C25_Witness ==
    /\ paper.calls["client"].op = "submit_order"
    /\ paper.calls["client"].raised
    /\ paper.calls["router"].op = "submit_order"
    /\ paper.calls["router"].result # None
    /\ DOMAIN paper.orders = {paper.calls["router"].result[1]}
    /\ Len(PaperBroker_get_fills(paper, paper.calls["router"].result[1])) = 1

\* C26: in every state, the sleeps of submit_option_spread included, the fills
\* the broker holds for the id of a spread call are none, or exactly one per
\* leg, in the legs' order, each for its leg's contract and full quantity.
C26_SpreadAtomicity ==
    \A c \in DOMAIN paper.calls :
        LET call == paper.calls[c]
        IN  (call.op = "submit_option_spread" /\ call.id # None) =>
              LET legs == call.args[1].legs
                  fills == DictGet(paper.option_fills, call.id[1], <<>>)
              IN  /\ DictGet(paper.fills, call.id[1], <<>>) = <<>>
                  /\ call.pc # "done" => fills = <<>>
                  /\ \/ fills = <<>>
                     \/ /\ Len(fills) = Len(legs)
                        /\ \A i \in 1..Len(legs) :
                              /\ fills[i].contract_symbol = get_contract_symbol(legs[i])
                              /\ fills[i].quantity = legs[i].quantity
                              /\ fills[i].broker_order_id = call.id[1]

\* The router's spread is recorded and waits for its fill, with no fill yet,
\* while the client's spread has both its fills.
C26_Witness ==
    /\ paper.calls["router"].op = "submit_option_spread"
    /\ paper.calls["router"].pc = "sleep_fill"
    /\ paper.calls["router"].id[1] \in DOMAIN paper.option_orders
    /\ paper.calls["router"].id[1] \notin DOMAIN paper.option_fills
    /\ paper.calls["client"].op = "submit_option_spread"
    /\ paper.calls["client"].pc = "done"
    /\ Len(paper.option_fills[paper.calls["client"].id[1]]) = 2

\* C27: once a valid two-leg spread with equal leg quantities has been
\* submitted through the option router to the paper broker and the id has come
\* back, the broker holds both leg fills for the order, the spread's
\* is_fully_filled() is true and its status is FILLED.
C27_SpreadFilledEndToEnd ==
    (/\ kind = "spread"
     /\ paper.calls["router"].op = "submit_option_spread"
     /\ paper.calls["router"].result # None
     /\ Len(order.legs) = 2
     /\ order.legs[1].quantity = order.legs[2].quantity) =>
        /\ order.broker_order_id = paper.calls["router"].result
        /\ Len(DictGet(paper.option_fills, order.broker_order_id[1], <<>>)) = 2
        /\ is_fully_filled(order)
        /\ order.status = "FILLED"

\* C28: every broker_order_id the paper broker has returned, from
\* submit_order, submit_option_order or submit_option_spread, can be asked of
\* get_order_status without an order-not-found error.
C28_ReturnedIdsQueryable ==
    \A c \in DOMAIN paper.calls :
        paper.calls[c].result # None =>
            ~PaperBroker_get_order_status(paper, paper.calls[c].result[1]).raised

\* C29: with process_signal calls that their caller may cancel at any
\* suspension point, whenever broker.submit_order has returned an id to a call,
\* the ORDER_SUBMITTED entry of that call's order is in the trade log.
C29_AuditUnderCancellation ==
    \A f \in Flows :
        flow[f].broker_reply = Some("id") =>
            \E i \in 1..Len(trade_log) :
                /\ trade_log[i].event = "ORDER_SUBMITTED"
                /\ trade_log[i].order_id = OrderId(f)

\* One call was cancelled while suspended in broker.submit_order and left no
\* ORDER_SUBMITTED entry; the other got an id back and its entry is written.
C29_Witness ==
    \E f \in Flows, g \in Flows :
        /\ flow[f].pc = "cancelled"
        /\ flow[f].order # None
        /\ flow[f].broker_reply = None
        /\ flow[g].broker_reply = Some("id")
        /\ \E i \in 1..Len(trade_log) :
              /\ trade_log[i].event = "ORDER_SUBMITTED"
              /\ trade_log[i].order_id = OrderId(g)
        /\ \A i \in 1..Len(trade_log) :
              trade_log[i].order_id = OrderId(f) => trade_log[i].event = "ORDER_CREATED"

C31_FillAppliedOnce ==
    [][(/\ kind = "equity"
        /\ last.op = "apply_fill"
        /\ ~last.raised
        /\ last'.op = "apply_fill"
        /\ last'.fill = last.fill) =>
           /\ order'.filled_quantity = order.filled_quantity
           /\ order'.filled_notional = order.filled_notional
           /\ order'.average_fill_price = order.average_fill_price
           /\ order'.status = order.status]_vars

\* C32: every fill applied to an order produces an ORDER_FILLED audit entry:
\* a call of a fill processor that applies its fill appends one entry to the
\* trade log, with event ORDER_FILLED, after the entries already written for
\* the order (ORDER_SUBMITTED, then the earlier fills).
C32_FillAudited ==
    [][(last'.op = "apply_fill" /\ ~last'.raised) =>
           /\ Len(trade_log') = Len(trade_log) + 1
           /\ SubSeq(trade_log', 1, Len(trade_log)) = trade_log
           /\ trade_log'[Len(trade_log')].event = "ORDER_FILLED"]_vars

\* C33: within one run_all_checks the eight checks run in the fixed order
\* notional, slippage, position limit, total exposure, single-asset
\* concentration, strategy daily loss, total daily loss, rate limit: while the
\* call is inside check_rate_limit (its read or its record in flight) the first
\* seven results are there, in that order, and nothing of the rate limit; the
\* results and the errors of a logged decision are in that order.
C33_CheckOrder ==
    /\ \A f \in Flows :
          flow[f].pc \in ThrottlePcs =>
             [k \in 1..Len(flow[f].check_results) |-> flow[f].check_results[k].name]
                 = SubSeq(CheckNames, 1, 7)
    /\ \A i \in 1..Len(decision_log) :
          LET e == decision_log[i]
          IN  IsRiskDecision(e) =>
                /\ [k \in 1..Len(e.check_results) |-> e.check_results[k].name]
                       = CheckNames
                /\ \A j1, j2 \in 1..Len(e.errors) :
                      j1 < j2 =>
                         \E k1, k2 \in FailedChecks(e) :
                             /\ k1 < k2
                             /\ e.errors[j1] = e.check_results[k1].error[1]
                             /\ e.errors[j2] = e.check_results[k2].error[1]

\* C33 witness: a call whose rate-limit record is in flight with the seven
\* earlier results in hand, the first of them failed, after a decision that
\* carries two errors was logged.
C33_Witness ==
    /\ \E f \in Flows :
          /\ flow[f].pc = "rl_zadd"
          /\ Len(flow[f].check_results) = 7
          /\ ~flow[f].check_results[1].valid
    /\ \E i \in 1..Len(decision_log) :
          /\ IsRiskDecision(decision_log[i])
          /\ Len(decision_log[i].errors) >= 2

\* C34: the throttle set holds submissions only: a timestamp is added (to the
\* in-memory cache or to the store's sorted set) only by a process_signal call
\* whose signal passes checks 1 to 7 and goes on to order submission; a signal
\* rejected by one of those checks leaves the set unchanged.
C34_ThrottleHoldsSubmissions ==
    [][/\ memory_cache' # memory_cache =>
             \E f \in Flows :
                 /\ flow[f].pc = "idle"
                 /\ flow'[f].pc = "broker"
                 /\ flow'[f].order # None
       /\ zset' # zset =>
             \E f \in Flows :
                 /\ flow[f].pc = "rl_zadd"
                 /\ flow'[f].pc = "rl_expire"
                 /\ \A k \in 1..Len(flow[f].check_results) :
                       flow[f].check_results[k].valid]_vars

\* C35: update_status stamps submitted_at on entering SUBMITTED, filled_at on
\* entering FILLED and cancelled_at on entering CANCELLED, and changes no
\* timestamp on any other transition; an order that is FILLED has filled_at
\* set, one that is CANCELLED has cancelled_at set, and a timestamp once set is
\* never cleared or stamped again.
C35_TimestampSideEffects ==
    [][/\ (order'.status # order.status /\ order'.status = "SUBMITTED") =>
              order'.submitted_at = Some(clock')
       /\ (order'.status # order.status /\ order'.status = "FILLED") =>
              order'.filled_at = Some(clock')
       /\ (order'.status # order.status /\ order'.status = "CANCELLED") =>
              order'.cancelled_at = Some(clock')
       /\ order'.status # "SUBMITTED" => order'.submitted_at = order.submitted_at
       /\ order'.status # "FILLED" => order'.filled_at = order.filled_at
       /\ order'.status # "CANCELLED" => order'.cancelled_at = order.cancelled_at
       /\ order'.status = "FILLED" => order'.filled_at # None
       /\ order'.status = "CANCELLED" => order'.cancelled_at # None
       /\ order.submitted_at # None => order'.submitted_at = order.submitted_at
       /\ order.filled_at # None => order'.filled_at = order.filled_at
       /\ order.cancelled_at # None => order'.cancelled_at = order.cancelled_at]_vars

\* C36: lifecycle completion: when the broker's fills for a SUBMITTED order,
\* whose quantities sum to the order quantity, are delivered one at a time,
\* fairly and each exactly once, the order eventually reaches FILLED, whatever
\* the number of fills.
C36_LifecycleCompletion == <>(order.status = "FILLED")

\* C37: cancellation agrees with the broker: a router cancel marks the local
\* order CANCELLED and reports success only when the broker's cancel_order
\* returned true; when the broker returned false the local order is not marked
\* CANCELLED and the cancel does not report success.
C37_CancelAgreesWithBroker ==
    [][last'.op = "cancel" =>
          /\ (last'.err = None \/ (order'.status = "CANCELLED" /\ order.status # "CANCELLED"))
                => (last'.called /\ last'.outcome = "true")
          /\ (last'.called /\ last'.outcome = "false")
                => (order'.status = order.status /\ last'.err # None)]_vars

\* C38: each order is sent to a broker at most once: a router submit calls the
\* broker only when the order is PENDING; on an order in any other state it
\* makes no broker call and does not replace broker_order_id.
C38_SubmittedAtMostOnce ==
    [][(last'.op = "submit" /\ order.status # "PENDING") =>
          /\ ~last'.called
          /\ order'.broker_order_id = order.broker_order_id]_vars

\* C39: fill application is all-or-nothing: whenever apply_fill_to_order (equity
\* or option) or apply_fill_to_spread raises, the order's status, filled
\* quantities, leg_fills, leg_fill_prices and fill prices are exactly as they
\* were before the call.
C39_FillAllOrNothing ==
    [][(last'.op = "apply_fill" /\ last'.raised) =>
          /\ order'.status = order.status
          /\ kind = "equity" =>
                /\ order'.filled_quantity = order.filled_quantity
                /\ order'.filled_notional = order.filled_notional
                /\ order'.average_fill_price = order.average_fill_price
          /\ kind = "option" =>
                /\ order'.filled_quantity = order.filled_quantity
                /\ order'.filled_price = order.filled_price
          /\ kind = "spread" =>
                /\ order'.leg_fills = order.leg_fills
                /\ order'.leg_fill_prices = order.leg_fill_prices]_vars

\* C40: only the spread's own fills change it: apply_fill_to_spread changes
\* leg_fills, leg_fill_prices or status only for a fill that carries the
\* spread's broker_order_id and for a leg that is one of the spread's legs, and
\* the keys of leg_fills are always contract symbols of the spread's own legs.
C40_OwnFillsOnly ==
    [][kind = "spread" =>
          /\ (/\ last'.op = "apply_fill"
              /\ \/ order'.leg_fills # order.leg_fills
                 \/ order'.leg_fill_prices # order.leg_fill_prices
                 \/ order'.status # order.status) =>
                /\ Some(last'.fill[1].broker_order_id) = order.broker_order_id
                /\ last'.leg[1] \in 1..Len(order.legs)
          /\ DOMAIN order'.leg_fills \subseteq
                {get_contract_symbol(order'.legs[i]) : i \in 1..Len(order'.legs)}]_vars

=============================================================================
